---- MODULE Spec2Model ----
(***************************************************************************)
(* A model of coalesce: the local cache of solved Codeforces problems.     *)
(*                                                                         *)
(* Two programs live in the repository and are modelled side by side:      *)
(*   - the packaged one, coalesce/cli.py over coalesce/data_manager.py     *)
(*     (class DataManager), which keeps ~/.coalesce/{problems,             *)
(*     all_problems,config}.json and ~/.coalesce/backups;                  *)
(*   - the legacy one, coalesce.py over src/cf_api.py and                  *)
(*     src/data_manager.py, which keeps data/{handles,solved_problems}.json*)
(*     and data/backups.                                                   *)
(* The two never touch each other's files, so a behaviour exercises one of *)
(* them: impl says which.                                                  *)
(*                                                                         *)
(* A command of either program is one action: the programs are             *)
(* single-threaded and synchronous.  What a command did on the way (which  *)
(* requests it made, what it backed up, what it overwrote) is kept in the  *)
(* variable last, the record of the most recent command.                   *)
(***************************************************************************)
EXTENDS Integers, Sequences, FiniteSets, TLC

VARIABLES
    impl,               \* "packaged" or "legacy": the program being run
    now,                \* the wall clock, in seconds
    remote,             \* the remote judge: what each endpoint answers
    copy_ok,            \* whether a file can be copied into the backup directory
    handles,            \* config["handles"] / data/handles.json
    auto_refresh,       \* config["auto_refresh"]: [enabled, period_days]
    data_file,          \* problems.json / data/solved_problems.json
    all_problems_file,  \* all_problems.json (the catalog-store)
    backups,            \* the backup directory: a set of [name, content]
    managers,           \* the DataManager of each invocation in flight
    last                \* the most recent command: what it was and what it did

\* last is listed by its fields, the command first: the argument of two
\* commands may be of two kinds, and is compared for one command only.
vars == <<impl, now, remote, copy_ok, handles, auto_refresh, data_file,
          all_problems_file, backups, managers,
          last.cmd, last.exit, last.result, last.log, last.returned,
          last.found, last.arg>>

----------------------------------------------------------------------------
(* Bounds of the model.                                                    *)

\* A behaviour advances the clock at most MaxTicks times, each time by one
\* second or by one day.
MaxTicks == 2

\* In the behaviours that fill the backup directory the clock advances by
\* one second at most MaxBackupTicks times: more names than are kept.
MaxBackupTicks == 12

\* The handles a user may track.  HandleOrder is their alphabetical order,
\* which is what Python's sorted() gives for them.
Handles == {"A", "B"}
HandleOrder == <<"A", "B">>

\* Periods a user may configure (days).
Periods == {0, 1}

----------------------------------------------------------------------------
(* Program constants.                                                      *)

\* A key that is missing from a JSON object (Python: dict.get(...) is None,
\* or the key is not in the dict).
Absent == -1

\* "Only include problems with rating >= 800"
RatingFloor == 800

\* "Clean up old backups (keep last 10)"
KeepBackups == 10

one_day_in_seconds == 24 * 60 * 60

\* The clock when the program is first run: any time well after the epoch,
\* since last_refresh = 0 stands for "never refreshed".
StartClock == 3 * one_day_in_seconds

----------------------------------------------------------------------------
(* Sequence helpers.                                                       *)

Range(s) == {s[i] : i \in 1..Len(s)}

\* Python: x in list
InSeq(x, s) == \E i \in 1..Len(s) : s[i] = x

\* Python: list.remove(x) removes the first occurrence
RemoveFirst(s, x) ==
    LET i == CHOOSE k \in 1..Len(s) : s[k] = x /\ \A j \in 1..(k-1) : s[j] # x
    IN  [k \in 1..(Len(s) - 1) |-> IF k < i THEN s[k] ELSE s[k + 1]]

----------------------------------------------------------------------------
(* The remote judge.                                                       *)

\* A string key that is missing from a JSON object (no problem index is
\* the empty string).
NoIndex == <<>>

\* One item of the result list of user.status: a submission.
Submission(verdict, id, contestId, index, rating, tags, t) ==
    [verdict |-> verdict, id |-> id, contestId |-> contestId, index |-> index,
     rating |-> rating, tags |-> tags, creationTimeSeconds |-> t]

\* The same problem 1700A accepted twice, by two different submissions: the
\* one with the smaller id is the later one in time.
sub1700A_first  == Submission("OK", 101, 1700, <<"A">>, 1500, <<"dp", "graphs">>, 50)
sub1700A_second == Submission("OK", 202, 1700, <<"A">>, 1500, <<"dp", "graphs">>, 20)
\* A problem rated exactly at the floor, one below it, one unrated.
sub1700C_floor  == Submission("OK", 303, 1700, <<"C">>, 800, <<"math">>, 30)
sub4A_low       == Submission("OK", 404, 4, <<"A">>, 500, <<"math">>, 40)
sub1B_unrated   == Submission("OK", 505, 1, <<"B">>, Absent, <<>>, 10)
\* A rejected attempt at a problem nobody solved.
sub17000B_wrong == Submission("WRONG_ANSWER", 606, 17000, <<"B">>, 1600, <<"DP">>, 60)
\* Accepted problems for the queries: one rated 1600 and tagged dp and
\* graphs, one of contest 17000 whose tag is written DP, one of contest 17
\* whose index is B1, and one whose submission carries no creation time.
sub1500C        == Submission("OK", 707, 1500, <<"C">>, 1600, <<"dp", "graphs">>, 70)
sub17000B_ok    == Submission("OK", 808, 17000, <<"B">>, 1600, <<"DP">>, 80)
sub17B1         == Submission("OK", 909, 17, <<"B", "1">>, 900, <<"math">>, 90)
sub2A_untimed   == Submission("OK", 111, 2, <<"A">>, 1000, <<"math">>, Absent)
\* A problem of contest 170, between the contests 17 and 1700.
sub170A         == Submission("OK", 333, 170, <<"A">>, 2100, <<"graphs">>, 65)
\* A problem the judge rates above 3500.
sub1800D_beyond == Submission("OK", 222, 1800, <<"D">>, 3600, <<"graphs">>, 95)
\* Accepted items that lack the submission id, the problem index, the
\* contest id.
subNoId      == Submission("OK", Absent, 1500, <<"C">>, 1600, <<"dp">>, 70)
subNoIndex   == Submission("OK", 707, 1500, NoIndex, 1600, <<"dp">>, 70)
subNoContest == Submission("OK", 707, Absent, <<"C">>, 1600, <<"dp">>, 70)

\* What user.status may answer for a handle: the request fails in transport
\* (requests.get raises), the body is not JSON (response.json() raises), the
\* judge rejects the request (status FAILED), or it answers OK with a list.
Failure(kind) == [kind |-> kind, result |-> <<>>]
Answer(result) == [kind |-> "OK", result |-> result]

StatusResponses ==
    { Failure("transport"), Failure("decode"), Failure("rejected"),
      Answer(<<sub1700A_first, sub4A_low>>),
      Answer(<<sub1700A_second, sub1700C_floor>>),
      Answer(<<sub1B_unrated, sub17000B_wrong, sub1700C_floor>>) }

\* One item of result.problems of problemset.problems.
CatalogItem(contestId, index, name, rating, tags) ==
    [contestId |-> contestId, index |-> index, name |-> name,
     rating |-> rating, tags |-> tags]

cat1700A == CatalogItem(1700, <<"A">>, "n1", 1500, <<"dp", "graphs">>)
cat4A    == CatalogItem(4, <<"A">>, "n2", 500, <<"math">>)
cat1B    == CatalogItem(1, <<"B">>, "n3", Absent, <<>>)
catGym   == CatalogItem(Absent, <<"A">>, "n4", 900, <<>>)
cat1500C  == CatalogItem(1500, <<"C">>, "n5", 1600, <<"dp", "graphs">>)
cat17000B == CatalogItem(17000, <<"B">>, "n6", 1600, <<"DP">>)
cat17B1   == CatalogItem(17, <<"B", "1">>, "n7", 900, <<"math">>)
cat170A   == CatalogItem(170, <<"A">>, "n8", 2100, <<"graphs">>)
cat1900E  == CatalogItem(1900, <<"E">>, "n9", 3600, <<"graphs">>)
\* Items of the problem set that lack the name, the index.
NoName == ""
catNoName  == CatalogItem(1500, <<"C">>, NoName, 1600, <<"dp", "graphs">>)
catNoIndex == CatalogItem(1500, NoIndex, "n5", 1600, <<"dp", "graphs">>)

\* What problemset.problems may answer; "malformed" is status OK without a
\* result.problems list.
CatalogResponses ==
    { Failure("transport"), Failure("decode"), Failure("rejected"),
      Failure("malformed"),
      Answer(<<cat1700A, cat4A>>),
      Answer(<<cat4A, cat1B, catGym>>) }

----------------------------------------------------------------------------
(* Strings.  A problem id is the decimal contest id followed by the problem *)
(* index, so it is modelled as what it is: a sequence of characters.        *)

DigitChars == <<"0", "1", "2", "3", "4", "5", "6", "7", "8", "9">>

\* Python: str(n) / f"{n}" for an int n >= 0
RECURSIVE Str(_)
Str(n) == IF n < 10 THEN <<DigitChars[n + 1]>>
          ELSE Str(n \div 10) \o <<DigitChars[(n % 10) + 1]>>

\* f"{contest_id}{problem_code}": the problem index is a string too, "A" is
\* <<"A">> and "B1" is <<"B", "1">>.
ProblemId(contest_id, problem_code) == Str(contest_id) \o problem_code

\* Python: c.isdigit() for one character
isdigit(c) == c \in Range(DigitChars)

\* Python: s.startswith(prefix), s.endswith(suffix)
startswith(s, prefix) ==
    /\ Len(prefix) <= Len(s)
    /\ SubSeq(s, 1, Len(prefix)) = prefix

endswith(s, suffix) ==
    /\ Len(suffix) <= Len(s)
    /\ SubSeq(s, Len(s) - Len(suffix) + 1, Len(s)) = suffix

\* Python: s.upper(), on the characters problem ids and indexes are made of
UpperChar(c) ==
    CASE c = "a" -> "A" [] c = "b" -> "B" [] c = "c" -> "C" [] OTHER -> c

upper(s) == [i \in 1..Len(s) |-> UpperChar(s[i])]

\* Python: tag.lower(), on the tags the judge and the user write
lower(tag) ==
    CASE tag = "DP" -> "dp" [] tag = "Graphs" -> "graphs"
      [] tag = "Math" -> "math" [] OTHER -> tag

----------------------------------------------------------------------------
(* Python dicts keep insertion order and json.dump writes them in that     *)
(* order: a dict keyed by problem_id is a sequence of records with         *)
(* pairwise different problem_id.                                          *)

HasKey(d, k) == \E i \in 1..Len(d) : d[i].problem_id = k

\* d[k] = v
DictSet(d, k, v) ==
    IF HasKey(d, k)
    THEN [i \in 1..Len(d) |-> IF d[i].problem_id = k THEN v ELSE d[i]]
    ELSE Append(d, v)

\* d.update(other): every key of other is set in d, in other's order; a
\* key d already has keeps its place and takes other's value.
RECURSIVE DictUpdate(_, _)
DictUpdate(d, other) ==
    IF other = <<>> THEN d
    ELSE DictUpdate(DictSet(d, Head(other).problem_id, Head(other)), Tail(other))

----------------------------------------------------------------------------
(* coalesce/data_manager.py: class DataManager.                            *)

\* The record get_solved_problems stores for one accepted submission.
SolvedRecord(item) ==
    [problem_id      |-> ProblemId(item.contestId, item.index),
     problem_link    |-> <<"problemset/problem", item.contestId, item.index>>,
     rating          |-> IF item.rating = Absent THEN 0 ELSE item.rating,
     tags            |-> item.tags,
     submission_id   |-> item.id,
     submission_link |-> <<"contest", item.contestId, "submission", item.id>>,
     submission_time |-> IF item.creationTimeSeconds = Absent THEN 0
                         ELSE item.creationTimeSeconds,
     contest_id      |-> item.contestId,
     problem_code    |-> item.index]

\* A loop of get_solved_problems that stores a record for an item whatever
\* its verdict.
RECURSIVE SolvedLoop_any_verdict(_, _)
SolvedLoop_any_verdict(items, acc) ==
    IF items = <<>> \/ acc.raised THEN acc
    ELSE IF Head(items).id = Absent THEN [acc EXCEPT !.raised = TRUE]
    ELSE IF Head(items).contestId = Absent
    THEN SolvedLoop_any_verdict(Tail(items), acc)
    ELSE IF Head(items).index = NoIndex THEN [acc EXCEPT !.raised = TRUE]
    ELSE IF /\ SolvedRecord(Head(items)).rating >= RatingFloor
            /\ ~HasKey(acc.solved, SolvedRecord(Head(items)).problem_id)
    THEN SolvedLoop_any_verdict(Tail(items),
             [acc EXCEPT !.solved = Append(@, SolvedRecord(Head(items)))])
    ELSE SolvedLoop_any_verdict(Tail(items), acc)

\* A loop of get_solved_problems in which a later accepted submission of a
\* problem replaces the record of an earlier one.
RECURSIVE SolvedLoop_keeps_last(_, _)
SolvedLoop_keeps_last(items, acc) ==
    IF items = <<>> \/ acc.raised THEN acc
    ELSE IF Head(items).verdict # "OK"
    THEN SolvedLoop_keeps_last(Tail(items), acc)
    ELSE IF Head(items).id = Absent THEN [acc EXCEPT !.raised = TRUE]
    ELSE IF Head(items).contestId = Absent
    THEN SolvedLoop_keeps_last(Tail(items), acc)
    ELSE IF Head(items).index = NoIndex THEN [acc EXCEPT !.raised = TRUE]
    ELSE IF SolvedRecord(Head(items)).rating >= RatingFloor
    THEN SolvedLoop_keeps_last(Tail(items),
             [acc EXCEPT !.solved =
                 DictSet(@, SolvedRecord(Head(items)).problem_id,
                         SolvedRecord(Head(items)))])
    ELSE SolvedLoop_keeps_last(Tail(items), acc)

\* The loop of get_solved_problems over data['result'].  acc is
\* [raised, solved]: item['id'] and problem['index'] are plain subscripts,
\* so a missing key raises KeyError out of the function.
RECURSIVE SolvedLoop(_, _)
SolvedLoop(items, acc) ==
    IF items = <<>> \/ acc.raised THEN acc
    ELSE LET item == Head(items) IN
         IF item.verdict # "OK" THEN SolvedLoop(Tail(items), acc)
         ELSE IF item.id = Absent THEN [acc EXCEPT !.raised = TRUE]
         ELSE IF item.contestId = Absent THEN SolvedLoop(Tail(items), acc)
         ELSE IF item.index = NoIndex THEN [acc EXCEPT !.raised = TRUE]
         ELSE LET rating == IF item.rating = Absent THEN 0 ELSE item.rating
                  rec == SolvedRecord(item)
              IN  IF rating >= RatingFloor /\ ~HasKey(acc.solved, rec.problem_id)
                  THEN SolvedLoop(Tail(items),
                                  [acc EXCEPT !.solved = Append(@, rec)])
                  ELSE SolvedLoop(Tail(items), acc)

\* What get_solved_problems hands back once its loop has ended with r: the
\* exception, or (True, solved_problems).
Returned(r) == [raised |-> r.raised, success |-> ~r.raised, solved |-> r.solved]

\* DataManager.get_solved_problems(handle): [raised, success, solved].
get_solved_problems(handle) ==
    IF remote.user_status[handle].kind \in {"transport", "decode"}
    THEN [raised |-> TRUE, success |-> FALSE, solved |-> <<>>]
    ELSE IF remote.user_status[handle].kind # "OK"
    THEN [raised |-> FALSE, success |-> FALSE, solved |-> <<>>]
    ELSE Returned(SolvedLoop(remote.user_status[handle].result,
                             [raised |-> FALSE, solved |-> <<>>]))

----------------------------------------------------------------------------
(* A command runs on st, the files and the configuration as it goes:       *)
(*   handles, auto_refresh, data_file, all_problems_file, backups          *)
(*   log       what it has done so far, a sequence of events [e, arg]      *)
(*   raised    an exception is propagating                                 *)
(*   result    what the last DataManager call returned as its outcome      *)
(*   returned  the list the last get_all_problems call returned            *)
(*   found     the records the command's filters have kept                 *)
(* The world it runs in is remote (user_status and user_info per handle,   *)
(* problemset) and copy_ok.                                                *)

Ev(e, arg) == [e |-> e, arg |-> arg]
Log(st, e, arg) == [st EXCEPT !.log = Append(@, Ev(e, arg))]
Raise(st) == [st EXCEPT !.raised = TRUE]

\* `if not problems:` in list_cmd, export, plot, gimme and in the legacy
\* list and gimme: with nothing found the command prints that it has found
\* no problems and returns.
IfNone(s) ==
    IF s.raised \/ s.found # <<>> THEN s ELSE Log(s, "report", "no_problems")

\* The log of a command holds an event e.
HasEv(log, e) == \E i \in 1..Len(log) : log[i].e = e

\* What a "write_solved" event records: whether the file about to be
\* overwritten exists, and the names of the backup files that hold its
\* content at that moment.
HeldBy(files, file) ==
    [existed |-> file.exists,
     held_by |-> {b.name : b \in {c \in files : c.content = file}}]

Snapshot(last_refresh, problems) ==
    [exists |-> TRUE, readable |-> TRUE, last_refresh |-> last_refresh,
     problems |-> problems]

\* A path with no file, and a file json.load cannot parse: zero bytes, or
\* the beginning of a document.
Missing ==
    [exists |-> FALSE, readable |-> FALSE, last_refresh |-> 0,
     problems |-> <<>>]
Damaged ==
    [exists |-> TRUE, readable |-> FALSE, last_refresh |-> 0,
     problems |-> <<>>]

\* DataManager._read_json(file_path) raises: open() on a missing file,
\* json.load on one it cannot parse.
_read_json_raises(file) == ~file.exists \/ ~file.readable

\* A pruning that keeps the ten smallest names.
Newest_keeps_oldest(files) ==
    {b \in files : Cardinality({c \in files : c.name < b.name}) < KeepBackups}

\* The backup files that survive the pruning: sorted(...)[-10:], the ten
\* largest names.
Newest(files) ==
    {b \in files : Cardinality({c \in files : c.name > b.name}) < KeepBackups}

\* The file name problems_%Y%m%d_%H%M%S.json: one name per second of the
\* clock, and names sort as the seconds do (fixed-width fields).
BackupName(t) == t

\* shutil.copy2(src, dst): dst is created or overwritten.
Copy2(files, name, content) ==
    {b \in files : b.name # name} \cup {[name |-> name, content |-> content]}

\* DataManager.backup_data()
backup_data(st) ==
    IF ~st.data_file.exists THEN st
    ELSE IF ~copy_ok THEN Raise(st)
    ELSE LET copied == Copy2(st.backups, BackupName(now), st.data_file)
             pruned == IF Cardinality(copied) > KeepBackups
                       THEN Newest(copied) ELSE copied
         IN  Log([st EXCEPT !.backups = pruned], "backup", BackupName(now))

\* One round of the loop of update_problems_data: handle has been asked and
\* get_solved_problems has ended with r.  acc is [raised, all_problems, log].
Fetched(acc, handle, r) ==
    [acc EXCEPT !.log = Append(@, Ev("fetch", handle)),
                !.raised = r.raised,
                !.all_problems = IF ~r.raised /\ r.success
                                 THEN DictUpdate(@, r.solved) ELSE @]

\* The loop of update_problems_data over the handles; an exception ends it.
RECURSIVE FetchLoop(_, _)
FetchLoop(hs, acc) ==
    IF hs = <<>> \/ acc.raised THEN acc
    ELSE FetchLoop(Tail(hs),
                   Fetched(acc, Head(hs), get_solved_problems(Head(hs))))

\* The end of update_problems_data: the loop has ended with f on the state b
\* the backup left; unless an exception propagates, the file is written.
WriteSolved(b, f) ==
    IF f.raised THEN [b EXCEPT !.raised = TRUE, !.log = f.log]
    ELSE [b EXCEPT !.data_file = Snapshot(now, f.all_problems),
                   !.log = Append(f.log, Ev("write_solved",
                                            HeldBy(b.backups, b.data_file))),
                   !.result = "updated"]

\* update_problems_data from the backup on: b is what backup_data left.
FetchAndWrite(b) ==
    IF b.raised THEN b
    ELSE WriteSolved(b, FetchLoop(b.handles, [raised |-> FALSE,
                                              all_problems |-> <<>>,
                                              log |-> b.log]))

\* update_problems_data without its "if not handles" return.
update_problems_data_no_guard(st) ==
    IF st.raised THEN st
    ELSE IF st.handles = <<>>
    THEN [FetchAndWrite(backup_data(st)) EXCEPT !.result = "no_handles"]
    ELSE FetchAndWrite(backup_data(st))

\* The end of an update_problems_data that adds what it fetched to the
\* records already in the file instead of replacing them.
WriteSolved_appends(b, f) ==
    IF f.raised THEN [b EXCEPT !.raised = TRUE, !.log = f.log]
    ELSE [b EXCEPT !.data_file = Snapshot(now, b.data_file.problems
                                               \o f.all_problems),
                   !.log = Append(f.log, Ev("write_solved",
                                            HeldBy(b.backups, b.data_file))),
                   !.result = "updated"]

FetchAndWrite_appends(b) ==
    IF b.raised THEN b
    ELSE WriteSolved_appends(b, FetchLoop(b.handles, [raised |-> FALSE,
                                                      all_problems |-> <<>>,
                                                      log |-> b.log]))

update_problems_data_appends(st) ==
    IF st.raised THEN st
    ELSE IF st.handles = <<>>
    THEN [Log(st, "no_handles", "") EXCEPT !.result = "no_handles"]
    ELSE FetchAndWrite_appends(backup_data(st))

\* update_problems_data starting its merge from the records already in the
\* file instead of from an empty dict.
FetchAndWrite_merges(b) ==
    IF b.raised THEN b
    ELSE WriteSolved(b, FetchLoop(b.handles,
                                  [raised |-> FALSE,
                                   all_problems |-> b.data_file.problems,
                                   log |-> b.log]))

update_problems_data_merges(st) ==
    IF st.raised THEN st
    ELSE IF st.handles = <<>>
    THEN [Log(st, "no_handles", "") EXCEPT !.result = "no_handles"]
    ELSE FetchAndWrite_merges(backup_data(st))

\* DataManager.update_problems_data()
update_problems_data(st) ==
    IF st.raised THEN st
    ELSE IF st.handles = <<>>
    THEN [Log(st, "no_handles", "") EXCEPT !.result = "no_handles"]
    ELSE FetchAndWrite(backup_data(st))

\* The record get_all_problems stores for one catalog problem.
CatalogRecord(problem) ==
    [problem_id   |-> ProblemId(problem.contestId, problem.index),
     problem_link |-> <<"problemset/problem", problem.contestId, problem.index>>,
     rating       |-> IF problem.rating = Absent THEN 0 ELSE problem.rating,
     tags         |-> problem.tags,
     contest_id   |-> problem.contestId,
     problem_code |-> problem.index]

\* The loop of get_all_problems over data["result"]["problems"].
RECURSIVE CatalogLoop(_)
CatalogLoop(items) ==
    IF items = <<>> THEN <<>>
    ELSE LET problem == Head(items) IN
         IF problem.contestId = Absent \/ problem.index = NoIndex
         THEN CatalogLoop(Tail(items))
         ELSE <<CatalogRecord(problem)>> \o CatalogLoop(Tail(items))

\* get_all_problems writing the cache file back, with a new last_refresh,
\* when the fetch has failed.
get_all_problems_stamps_failure(st, force_refresh) ==
    IF st.raised THEN st
    ELSE LET cached == st.all_problems_file.problems
             last_refresh == st.all_problems_file.last_refresh
         IN
         IF force_refresh \/ (now - last_refresh > one_day_in_seconds)
         THEN LET s == Log(st, "fetch_catalog", "")
                  data == remote.problemset
              IN  IF data.kind # "OK"
                  THEN [s EXCEPT !.all_problems_file = Snapshot(now, cached),
                                 !.returned = cached,
                                 !.result = "catalog_error"]
                  ELSE LET problems == CatalogLoop(data.result) IN
                       [Log(s, "write_catalog", "") EXCEPT
                          !.all_problems_file = Snapshot(now, problems),
                          !.returned = problems,
                          !.result = "catalog_updated"]
         ELSE [st EXCEPT !.returned = cached, !.result = "catalog_cached"]

\* DataManager.get_all_problems(force_refresh)
get_all_problems(st, force_refresh) ==
    IF st.raised THEN st
    ELSE IF _read_json_raises(st.all_problems_file) THEN Raise(st)
    ELSE LET cached == st.all_problems_file.problems
             last_refresh == st.all_problems_file.last_refresh
         IN
         IF force_refresh \/ (now - last_refresh > one_day_in_seconds)
         THEN LET s == Log(st, "fetch_catalog", "")
                  data == remote.problemset
              IN  IF data.kind \in {"transport", "decode", "malformed"}
                  THEN [s EXCEPT !.returned = cached, !.result = "catalog_error"]
                  ELSE IF data.kind # "OK"
                  THEN [s EXCEPT !.returned = cached, !.result = "catalog_rejected"]
                  ELSE LET problems == CatalogLoop(data.result) IN
                       [Log(s, "write_catalog", "") EXCEPT
                          !.all_problems_file = Snapshot(now, problems),
                          !.returned = problems,
                          !.result = "catalog_updated"]
         ELSE [st EXCEPT !.returned = cached, !.result = "catalog_cached"]

\* The staleness test with >= in place of >.
IsStale_inclusive(last_refresh, period_days) ==
    now - last_refresh >= period_days * 24 * 60 * 60

\* The staleness test of lazy_refresh: current_time - last_refresh >
\* period_seconds, with period_seconds = period_days * 24 * 60 * 60.
IsStale(last_refresh, period_days) ==
    now - last_refresh > period_days * 24 * 60 * 60

\* A first half of lazy_refresh without its try/except.
LazySolved_uncaught(st) ==
    IF _read_json_raises(st.data_file) THEN Raise(st)
    ELSE IF IsStale(st.data_file.last_refresh, st.auto_refresh.period_days)
    THEN update_problems_data(Log(st, "lazy_solved", ""))
    ELSE st

\* The first half of lazy_refresh: the solved problems, an exception caught
\* and printed as a warning.
LazySolved(st) ==
    IF _read_json_raises(st.data_file) THEN st
    ELSE IF IsStale(st.data_file.last_refresh, st.auto_refresh.period_days)
    THEN [update_problems_data(Log(st, "lazy_solved", ""))
            EXCEPT !.raised = FALSE]
    ELSE st

\* The second half of lazy_refresh: all problems; s1 is what the first left.
LazyCatalog(s1) ==
    IF _read_json_raises(s1.all_problems_file) THEN s1
    ELSE IF IsStale(s1.all_problems_file.last_refresh,
                    s1.auto_refresh.period_days)
    THEN [get_all_problems(Log(s1, "lazy_catalog", ""), TRUE)
            EXCEPT !.raised = FALSE]
    ELSE s1

\* DataManager.lazy_refresh()
lazy_refresh(st) ==
    IF st.raised THEN st
    ELSE IF ~st.auto_refresh.enabled THEN st
    ELSE IF st.auto_refresh.period_days <= 0 THEN st
    ELSE LazyCatalog(LazySolved(st))

\* add_handle without its look at the handles it has.
add_handle_again(st, handle) ==
    IF st.raised THEN st
    ELSE IF remote.user_info[handle] = "transport"
    THEN Raise(Log(st, "user_info", handle))
    ELSE IF remote.user_info[handle] # "OK"
    THEN [Log(st, "user_info", handle) EXCEPT !.result = "invalid"]
    ELSE [Log(st, "user_info", handle) EXCEPT !.handles = Append(@, handle),
                                              !.result = "added"]

\* DataManager.add_handle(handle)
add_handle(st, handle) ==
    IF st.raised THEN st
    ELSE IF InSeq(handle, st.handles) THEN [st EXCEPT !.result = "exists"]
    ELSE LET s == Log(st, "user_info", handle) IN
         IF remote.user_info[handle] = "transport" THEN Raise(s)
         ELSE IF remote.user_info[handle] # "OK" THEN [s EXCEPT !.result = "invalid"]
         ELSE [s EXCEPT !.handles = Append(@, handle), !.result = "added"]

\* remove_handle dropping the records on disk with the handle.
remove_handle_clears(st, handle) ==
    IF st.raised THEN st
    ELSE IF ~InSeq(handle, st.handles) THEN [st EXCEPT !.result = "missing"]
    ELSE [st EXCEPT !.handles = RemoveFirst(@, handle),
                    !.data_file = Snapshot(0, <<>>),
                    !.result = "removed"]

\* DataManager.remove_handle(handle)
remove_handle(st, handle) ==
    IF st.raised THEN st
    ELSE IF ~InSeq(handle, st.handles) THEN [st EXCEPT !.result = "missing"]
    ELSE [st EXCEPT !.handles = RemoveFirst(@, handle), !.result = "removed"]

\* The number a string of decimal digits denotes.
DigitValue(c) == CHOOSE d \in 0..9 : DigitChars[d + 1] = c

RECURSIVE DigitsValue(_)
DigitsValue(s) ==
    IF s = <<>> THEN 0
    ELSE DigitsValue(SubSeq(s, 1, Len(s) - 1)) * 10 + DigitValue(s[Len(s)])

IsDigits(s) == s # <<>> /\ \A i \in 1..Len(s) : isdigit(s[i])

\* Python: float(x).  An argument of set_auto_refresh is a number,
\* [number |-> n], a string, [text |-> chars], or None, [none |-> TRUE]; of
\* the strings float() accepts, the ones made of an optional sign and
\* decimal digits are modelled.  Any other string raises ValueError, and
\* an object that is neither a number nor a string raises TypeError.
float(x) ==
    IF "number" \in DOMAIN x
    THEN [raised |-> "", value |-> x.number]
    ELSE IF "text" \notin DOMAIN x
    THEN [raised |-> "TypeError", value |-> 0]
    ELSE IF IsDigits(x.text)
    THEN [raised |-> "", value |-> DigitsValue(x.text)]
    ELSE IF x.text # <<>> /\ Head(x.text) = "-" /\ IsDigits(Tail(x.text))
    THEN [raised |-> "", value |-> 0 - DigitsValue(Tail(x.text))]
    ELSE [raised |-> "ValueError", value |-> 0]

\* DataManager.set_auto_refresh(enabled, period_days): `except ValueError`
\* lets a TypeError of float() through to the caller.
set_auto_refresh(st, enabled, period_days) ==
    IF st.raised THEN st
    ELSE IF float(period_days).raised = "TypeError"
    THEN [Raise(st) EXCEPT !.result = "TypeError"]
    ELSE IF float(period_days).raised = "ValueError"
    THEN [st EXCEPT !.result = "not_a_number"]
    ELSE IF float(period_days).value < 0
    THEN [st EXCEPT !.result = "bad_period"]
    ELSE [st EXCEPT !.auto_refresh = [enabled |-> enabled,
                                      period_days |-> float(period_days).value],
                    !.result = "configured"]

\* DataManager.get_config()
get_config(st) == [handles |-> st.handles, auto_refresh |-> st.auto_refresh]

\* A key a filters dict does not hold; an option the user has not given.
Unset == <<>>

\* The filters dict with no key.  rating_range, time_range and cid_range are
\* pairs, contest_id is <<c>>, problem_id is the id's characters, tag_and and
\* tag_or are lists (an empty list filters nothing, as a missing key does).
NoFilters ==
    [rating_range |-> Unset, tag_and |-> <<>>, tag_or |-> <<>>,
     time_range |-> Unset, contest_id |-> Unset, problem_id |-> Unset,
     cid_range |-> Unset]

\* The tests of _matches_filters, one per key, in its order.
RatingTest(problem, filters) ==
    \/ filters.rating_range = Unset
    \/ /\ filters.rating_range[1] <= problem.rating
       /\ problem.rating <= filters.rating_range[2]

TagAndTest(problem, filters) ==
    \A i \in 1..Len(filters.tag_and) : InSeq(filters.tag_and[i], problem.tags)

TagOrTest(problem, filters) ==
    \/ filters.tag_or = <<>>
    \/ \E i \in 1..Len(filters.tag_or) : InSeq(filters.tag_or[i], problem.tags)

TimeTest(problem, filters) ==
    \/ filters.time_range = Unset
    \/ "submission_time" \notin DOMAIN problem
    \/ /\ filters.time_range[1] <= problem.submission_time
       /\ problem.submission_time <= filters.time_range[2]

ContestTest(problem, filters) ==
    \/ filters.contest_id = Unset
    \/ Str(problem.contest_id) = Str(filters.contest_id[1])

ProblemTest(problem, filters) ==
    \/ filters.problem_id = Unset
    \/ problem.problem_id = filters.problem_id

CidRangeTest(problem, filters) ==
    \/ filters.cid_range = Unset
    \/ /\ filters.cid_range[1] <= problem.contest_id
       /\ problem.contest_id <= filters.cid_range[2]

\* _matches_filters letting a supplied rating range stand in for tag_and.
_matches_filters_rating_overrides(problem, filters) ==
    /\ RatingTest(problem, filters)
    /\ TagAndTest(problem, filters) \/ filters.rating_range # Unset
    /\ TagOrTest(problem, filters)
    /\ TimeTest(problem, filters)
    /\ ContestTest(problem, filters)
    /\ ProblemTest(problem, filters)
    /\ CidRangeTest(problem, filters)

\* DataManager._matches_filters(problem, filters)
_matches_filters(problem, filters) ==
    /\ RatingTest(problem, filters)
    /\ TagAndTest(problem, filters)
    /\ TagOrTest(problem, filters)
    /\ TimeTest(problem, filters)
    /\ ContestTest(problem, filters)
    /\ ProblemTest(problem, filters)
    /\ CidRangeTest(problem, filters)

\* DataManager._matches_filters called on every record of a store, as
\* get_problems does on the solved problems and gimme on the cached catalog.
Matching(records, filters) ==
    SelectSeq(records, LAMBDA problem : _matches_filters(problem, filters))

\* DataManager.get_problems(filters): the values of the problems dict, all of
\* them when filters is empty.
get_problems(st, filters) ==
    IF filters = NoFilters THEN st.data_file.problems
    ELSE SelectSeq(st.data_file.problems,
                   LAMBDA problem : _matches_filters(problem, filters))

----------------------------------------------------------------------------
(* src/cf_api.py and src/data_manager.py: the legacy program.              *)

\* The entry get_solved_for_handle builds for one accepted submission
\* ("Problem Identifier", "Problem Link", "Rating", "Tags", "Submission ID",
\* "Link to Submission", "Submission Time"); Rating and Submission Time are
\* None when the remote does not give them.
LegacyEntry(item) ==
    [problem_id      |-> ProblemId(item.contestId, item.index),
     problem_link    |-> <<"problemset/problem", item.contestId, item.index>>,
     rating          |-> item.rating,
     tags            |-> item.tags,
     submission_id   |-> item.id,
     submission_link |-> <<"contest", item.contestId, "submission", item.id>>,
     submission_time |-> item.creationTimeSeconds]

\* The loop of get_solved_for_handle over data['result'].
RECURSIVE LegacyLoop(_)
LegacyLoop(items) ==
    IF items = <<>> THEN <<>>
    ELSE LET item == Head(items) IN
         IF item.verdict # "OK" THEN LegacyLoop(Tail(items))
         ELSE IF item.contestId = Absent \/ item.index = NoIndex
         THEN LegacyLoop(Tail(items))
         ELSE IF item.id = Absent THEN LegacyLoop(Tail(items))
         ELSE <<LegacyEntry(item)>> \o LegacyLoop(Tail(items))

\* cf_api.get_solved_for_handle(handle): every failure is printed and gives
\* the empty list.
get_solved_for_handle(handle) ==
    LET data == remote.user_status[handle] IN
    IF data.kind # "OK" THEN <<>> ELSE LegacyLoop(data.result)

\* "If multiple alts solved the same problem, this keeps the first one
\* encountered."
RECURSIVE KeepFirst(_, _)
KeepFirst(d, ps) ==
    IF ps = <<>> THEN d
    ELSE IF HasKey(d, Head(ps).problem_id) THEN KeepFirst(d, Tail(ps))
    ELSE KeepFirst(Append(d, Head(ps)), Tail(ps))

\* The loop of cf_api.get_all_solved_problems over enumerate(handles).  acc
\* is [all_problems_dict, log]; i counts the handles done.
RECURSIVE LegacyFetchLoop(_, _, _)
LegacyFetchLoop(hs, i, acc) ==
    IF hs = <<>> THEN acc
    ELSE LET handle == Head(hs)
             slept == IF i > 0 THEN Append(acc.log, Ev("sleep", 1)) ELSE acc.log
             problems == get_solved_for_handle(handle)
         IN  LegacyFetchLoop(Tail(hs), i + 1,
                 [all_problems_dict |-> KeepFirst(acc.all_problems_dict, problems),
                  log |-> Append(slept, Ev("fetch", handle))])

\* data_manager.save_solved_problems_data(problems_data): a backup that
\* cannot be written is a printed warning, and the file is written anyway.
save_solved_problems_data(st, problems_data) ==
    LET b == IF st.data_file.exists /\ copy_ok
             THEN Log([st EXCEPT !.backups =
                          Copy2(@, BackupName(now), st.data_file)],
                      "backup", BackupName(now))
             ELSE st
    IN  [b EXCEPT !.data_file = Snapshot(0, problems_data),
                  !.log = Append(@, Ev("write_solved",
                                       HeldBy(b.backups, b.data_file))),
                  !.result = "updated"]

\* json.dump(sorted(list(set(handles))), ...)
Sorted(hs) == SelectSeq(HandleOrder, LAMBDA h : h \in Range(hs))

\* coalesce.py: pull, once get_all_solved_problems has ended with f.
SaveFetched(st, f) ==
    save_solved_problems_data([st EXCEPT !.log = f.log], f.all_problems_dict)

\* coalesce.py: pull
legacy_pull_body(st) ==
    IF st.handles = <<>>
    THEN [Log(st, "no_handles", "") EXCEPT !.result = "no_handles"]
    ELSE SaveFetched(st, LegacyFetchLoop(st.handles, 0,
                             [all_problems_dict |-> <<>>, log |-> st.log]))

\* The options of list and gimme the user has not given.  rating, time and
\* the packaged cid are pairs once parsed, the legacy cid and pid are the
\* characters typed, tag_and and tag_or the tags between the commas.
NoOptions ==
    [rating |-> Unset, tag_and |-> <<>>, tag_or |-> <<>>, time |-> Unset,
     cid |-> Unset, pid |-> Unset]

\* coalesce.py: --rating has default="0-3500"
LegacyRating(options) ==
    IF options.rating = Unset THEN <<0, 3500>> ELSE options.rating

\* coalesce.py: the rating filter of list and gimme; Rating is None for an
\* unrated problem.
LegacyRatingTest(rating, options) ==
    /\ rating # Absent
    /\ LegacyRating(options)[1] <= rating
    /\ rating <= LegacyRating(options)[2]

\* {t.strip().lower() for t in ...}, {tag.lower() for tag in ...}
LowerSet(tags) == {lower(tags[i]) : i \in 1..Len(tags)}

LegacyTagAndTest(tags, options) ==
    \/ options.tag_and = <<>>
    \/ LowerSet(options.tag_and) \subseteq LowerSet(tags)

LegacyTagOrTest(tags, options) ==
    \/ options.tag_or = <<>>
    \/ \E i \in 1..Len(tags) : lower(tags[i]) \in LowerSet(options.tag_or)

\* coalesce.py: the time filter of list; Submission Time may be None.
LegacyTimeTest(p, options) ==
    \/ options.time = Unset
    \/ /\ p.submission_time # Absent
       /\ options.time[1] <= p.submission_time
       /\ p.submission_time <= options.time[2]

\* check_cid without its look at the character after the contest id.
check_cid_prefix(problem_identifier, contest_id_str) ==
    startswith(problem_identifier, contest_id_str)

\* coalesce.py: check_cid(problem_identifier, contest_id_str)
check_cid(problem_identifier, contest_id_str) ==
    /\ startswith(problem_identifier, contest_id_str)
    /\ (Len(problem_identifier) > Len(contest_id_str))
          => ~isdigit(problem_identifier[Len(contest_id_str) + 1])

\* coalesce.py: the cid filter of list, startswith and then check_cid
LegacyCidTest(p, options) ==
    \/ options.cid = Unset
    \/ /\ startswith(p.problem_id, options.cid)
       /\ check_cid(p.problem_id, options.cid)

\* coalesce.py: the pid filter of list
LegacyPidTest(p, options) ==
    \/ options.pid = Unset
    \/ IF options.cid # Unset
       THEN upper(p.problem_id) = options.cid \o upper(options.pid)
       ELSE endswith(upper(p.problem_id), upper(options.pid))

\* data_manager.load_solved_problems_data()
load_solved_problems_data(st) ==
    IF st.data_file.exists /\ st.data_file.readable
    THEN st.data_file.problems ELSE <<>>

\* coalesce.py: list
list_problems(st, options) ==
    IF load_solved_problems_data(st) = <<>> THEN Log(st, "report", "no_data")
    ELSE IfNone([st EXCEPT !.found =
        SelectSeq(load_solved_problems_data(st),
                  LAMBDA p : /\ LegacyRatingTest(p.rating, options)
                             /\ LegacyTagAndTest(p.tags, options)
                             /\ LegacyTagOrTest(p.tags, options)
                             /\ LegacyTimeTest(p, options)
                             /\ LegacyCidTest(p, options)
                             /\ LegacyPidTest(p, options))])

\* cf_api.get_all_problemset_problems(): every failure is printed and gives
\* the empty list; a problem without contestId, index or name is left out.
get_all_problemset_problems ==
    IF remote.problemset.kind # "OK" THEN <<>>
    ELSE SelectSeq(remote.problemset.result,
                   LAMBDA p_info : /\ p_info.contestId # Absent
                                   /\ p_info.index # NoIndex
                                   /\ p_info.name # NoName)

\* coalesce.py: gimme; the candidates are the items of the problem set.
gimme_problem(st, options, include_solved) ==
    IF get_all_problemset_problems = <<>> THEN Log(st, "report", "no_catalog")
    ELSE IfNone([st EXCEPT !.found =
        SelectSeq(get_all_problemset_problems,
                  LAMBDA p : /\ \/ include_solved
                                \/ ~HasKey(load_solved_problems_data(st),
                                           ProblemId(p.contestId, p.index))
                             /\ LegacyRatingTest(p.rating, options)
                             /\ LegacyTagAndTest(p.tags, options)
                             /\ LegacyTagOrTest(p.tags, options))])

----------------------------------------------------------------------------
(* The commands.                                                           *)

\* What user.info may answer for a handle: the handle exists, the judge
\* rejects it, the request fails.
UserInfoResponses == {"OK", "FAILED", "transport"}

\* DataManager.__init__: a store file that does not exist is written with
\* the default content; the legacy program creates nothing.
Created(file) ==
    IF impl = "packaged" /\ ~file.exists THEN Snapshot(0, <<>>) ELSE file

\* The state a command starts on.
Begin ==
    [handles |-> handles, auto_refresh |-> auto_refresh,
     data_file |-> Created(data_file),
     all_problems_file |-> Created(all_problems_file),
     backups |-> backups, log |-> <<>>, raised |-> FALSE, result |-> "",
     returned |-> <<>>, found |-> <<>>]

\* The command ends in state st: its effects are on disk, and main() turns
\* an exception that reached it into exit status 1.  A click.BadParameter
\* does not reach main(): cli() prints the usage error and exits with 2.
Commit(cmd, arg, st) ==
    \E s \in {st} :
       /\ handles' = s.handles
       /\ auto_refresh' = s.auto_refresh
       /\ data_file' = s.data_file
       /\ all_problems_file' = s.all_problems_file
       /\ backups' = s.backups
       /\ last' = [cmd |-> cmd, arg |-> arg, log |-> s.log,
                   exit |-> IF ~s.raised THEN 0
                            ELSE IF s.result = "bad_parameter" THEN 2 ELSE 1,
                   result |-> s.result, returned |-> s.returned,
                   found |-> s.found]
       /\ UNCHANGED <<managers, impl, now, remote, copy_ok>>

\* coalesce/cli.py: pull
pull ==
    /\ impl = "packaged"
    /\ Commit("pull", "",
              update_problems_data(get_all_problems(Begin, TRUE)))

\* coalesce/cli.py: add
add ==
    /\ impl = "packaged"
    /\ \E handle \in Handles :
         \E s \in {add_handle(lazy_refresh(Begin), handle)} :
            Commit("add", handle,
                   IF s.result = "added" THEN update_problems_data(s) ELSE s)

\* coalesce/cli.py: remove
remove ==
    /\ impl = "packaged"
    /\ \E handle \in Handles :
         \E s \in {remove_handle(lazy_refresh(Begin), handle)} :
            Commit("remove", handle,
                   IF s.result = "removed" THEN update_problems_data(s) ELSE s)

\* coalesce/cli.py: whoami, list_cmd, export, plot.  Each constructs a
\* DataManager, runs lazy_refresh and then only reads.
whoami == impl = "packaged" /\ Commit("whoami", "", lazy_refresh(Begin))

\* coalesce/cli.py: the filters dict list_cmd builds from its options;
\* rating_range is (0, 3500) when --rating is not given.
ListFilters(options) ==
    [rating_range |-> IF options.rating # Unset THEN options.rating
                      ELSE <<0, 3500>>,
     tag_and |-> options.tag_and, tag_or |-> options.tag_or,
     time_range |-> options.time, contest_id |-> Unset,
     problem_id |-> options.pid, cid_range |-> options.cid]

\* coalesce/cli.py: the filters dict gimme builds; it has no --time, no --pid.
GimmeFilters(options) ==
    [ListFilters(options) EXCEPT !.time_range = Unset, !.problem_id = Unset]

\* A command calls get_problems(filters): _read_json is not guarded there,
\* so a file it cannot read ends the command with the exception.
call_get_problems(s, filters) ==
    IF s.raised THEN s
    ELSE IF _read_json_raises(s.data_file) THEN Raise(s)
    ELSE [s EXCEPT !.found = get_problems(s, filters)]

\* An option value the parser of its option rejects: a --rating or --cid
\* without '-' or with a bound that is not an integer, a --time that is
\* neither a keyword nor two dates.
Malformed == <<"1000">>

\* parse_rating_range, parse_cid_range and parse_time_parameter raise
\* click.BadParameter.
BadParameter(s) == [Raise(s) EXCEPT !.result = "bad_parameter"]

\* coalesce/cli.py: list_cmd after lazy_refresh
ListFound(s, options) ==
    IF s.raised THEN s
    ELSE IF Malformed \in {options.rating, options.time, options.cid}
    THEN BadParameter(s)
    ELSE IfNone(call_get_problems(s, ListFilters(options)))

list_cmd ==
    /\ impl = "packaged"
    /\ Commit("list", NoOptions, ListFound(lazy_refresh(Begin), NoOptions))

\* coalesce/cli.py: export writes the rows of get_problems() to a CSV file.
export ==
    /\ impl = "packaged"
    /\ Commit("export", "",
              IfNone(call_get_problems(lazy_refresh(Begin), NoFilters)))

\* coalesce/cli.py: the filters dict plot builds; it has no --pid.
PlotFilters(options) == [ListFilters(options) EXCEPT !.problem_id = Unset]

\* coalesce/cli.py: plot after get_problems(): with nothing loaded it ends
\* before it looks at its options.
PlotFound(loaded, options) ==
    IF loaded.raised \/ loaded.found = <<>> THEN IfNone(loaded)
    ELSE IF Malformed \in {options.rating, options.time, options.cid}
    THEN BadParameter([loaded EXCEPT !.found = <<>>])
    ELSE IfNone([loaded EXCEPT !.found = Matching(@, PlotFilters(options))])

plot ==
    /\ impl = "packaged"
    /\ Commit("plot", NoOptions,
              PlotFound(call_get_problems(lazy_refresh(Begin), NoFilters),
                        NoOptions))

\* coalesce/cli.py: gimme.  Without --solved it reads the catalog through
\* get_all_problems().
Unsolved(c, filters) ==
    IF c.raised THEN c
    ELSE IF c.returned = <<>> THEN Log(c, "report", "no_catalog")
    ELSE IF _read_json_raises(c.data_file) THEN Raise(c)
    ELSE IfNone([c EXCEPT !.found =
            SelectSeq(c.returned,
                      LAMBDA problem :
                         /\ ~HasKey(c.data_file.problems, problem.problem_id)
                         /\ _matches_filters(problem, filters))])

GimmeFound(s, options, solved) ==
    IF s.raised THEN s
    ELSE IF Malformed \in {options.rating, options.cid}
    THEN BadParameter(s)
    ELSE IF solved
    THEN IfNone(call_get_problems(s, GimmeFilters(options)))
    ELSE Unsolved(get_all_problems(s, FALSE), GimmeFilters(options))

gimme ==
    /\ impl = "packaged"
    /\ \E solved \in BOOLEAN :
         Commit("gimme", [options |-> NoOptions, solved |-> solved],
                GimmeFound(lazy_refresh(Begin), NoOptions, solved))

\* coalesce/cli.py: config --auto-refresh on|off --period p
config ==
    /\ impl = "packaged"
    /\ \E enabled \in BOOLEAN, period_days \in Periods :
         Commit("config", "",
                set_auto_refresh(Begin, enabled, [number |-> period_days]))

\* coalesce.py: pull
legacy_pull ==
    /\ impl = "legacy"
    /\ Commit("pull", "", legacy_pull_body(Begin))

\* coalesce.py: add, over data_manager.add_handle
legacy_add ==
    /\ impl = "legacy"
    /\ \E handle \in Handles :
         IF InSeq(handle, handles)
         THEN Commit("add", handle, [Begin EXCEPT !.result = "exists"])
         ELSE Commit("add", handle,
                     legacy_pull_body(
                         [Begin EXCEPT !.handles = Sorted(Append(@, handle))]))

\* coalesce.py: remove, over data_manager.remove_handle
legacy_remove ==
    /\ impl = "legacy"
    /\ \E handle \in Handles :
         IF ~InSeq(handle, handles)
         THEN Commit("remove", handle, [Begin EXCEPT !.result = "missing"])
         ELSE Commit("remove", handle,
                     legacy_pull_body(
                         [Begin EXCEPT !.handles = Sorted(RemoveFirst(@, handle))]))

----------------------------------------------------------------------------
(* The world around the program.                                           *)

\* The record last holds after the world, not the program, has moved.
WorldMoved ==
    [cmd |-> "world", arg |-> "", log |-> <<>>, exit |-> 0, result |-> "",
     returned |-> <<>>, found |-> <<>>]

\* Time passes: how often the clock has advanced since StartClock.
Ticks == ((now - StartClock) \div one_day_in_seconds)
         + ((now - StartClock) % one_day_in_seconds)

TickSecond ==
    /\ Ticks < MaxTicks
    /\ now' = now + 1
    /\ UNCHANGED <<managers, impl, remote, copy_ok, handles, auto_refresh,
                   data_file, all_problems_file, backups, last>>

TickDay ==
    /\ Ticks < MaxTicks
    /\ now' = now + one_day_in_seconds
    /\ UNCHANGED <<managers, impl, remote, copy_ok, handles, auto_refresh,
                   data_file, all_problems_file, backups, last>>

\* The remote judge changes what user.status answers for one handle.
StatusChange ==
    /\ \E handle \in Handles, r \in StatusResponses :
         /\ remote.user_status[handle] # r
         /\ remote' = [remote EXCEPT !.user_status[handle] = r]
    /\ last' = WorldMoved
    /\ UNCHANGED <<managers, impl, now, copy_ok, handles, auto_refresh,
                   data_file, all_problems_file, backups>>

\* The remote judge changes what problemset.problems answers.
CatalogChange ==
    /\ \E r \in CatalogResponses :
         /\ remote.problemset # r
         /\ remote' = [remote EXCEPT !.problemset = r]
    /\ last' = WorldMoved
    /\ UNCHANGED <<managers, impl, now, copy_ok, handles, auto_refresh,
                   data_file, all_problems_file, backups>>

\* The backup directory becomes unwritable, or writable again.
DiskChange ==
    /\ copy_ok' = ~copy_ok
    /\ last' = WorldMoved
    /\ UNCHANGED <<managers, impl, now, remote, handles, auto_refresh,
                   data_file, all_problems_file, backups>>

----------------------------------------------------------------------------
(* Specifications.                                                         *)

\* Two invocations may run side by side; each has its own DataManager, which
\* holds the configuration it read in __init__ and has a position in the
\* command it runs.
Invocations == {"first", "second"}

NotRunning ==
    [pc |-> "none", handles |-> <<>>,
     auto_refresh |-> [enabled |-> TRUE, period_days |-> 1]]

\* The program state after the first construction: DataManager.__init__ has
\* written the default files; the legacy program has written nothing yet.
Constructed ==
    /\ now = StartClock
    /\ handles = <<>>
    /\ auto_refresh = [enabled |-> TRUE, period_days |-> 1]
    /\ data_file = IF impl = "packaged" THEN Snapshot(0, <<>>)
                   ELSE Missing
    /\ all_problems_file = Snapshot(0, <<>>)
    /\ backups = {}
    /\ managers = [p \in Invocations |-> NotRunning]
    /\ last = [cmd |-> "init", arg |-> "", log |-> <<>>, exit |-> 0,
               result |-> "", returned |-> <<>>, found |-> <<>>]

\* Spec: the refreshes of both programs, for every way user.status can answer
\* the two handles and change its answer between commands, with a backup
\* directory that may turn unwritable.
Init ==
    /\ impl \in {"packaged", "legacy"}
    /\ remote \in [user_status : [Handles -> StatusResponses],
                   user_info : {[h \in Handles |-> "OK"]},
                   problemset : {Answer(<<cat1700A, cat4A>>)}]
    /\ copy_ok = TRUE
    /\ Constructed

Next ==
    \/ pull \/ add \/ remove
    \/ legacy_pull \/ legacy_add \/ legacy_remove
    \/ StatusChange \/ DiskChange

Spec == Init /\ [][Next]_vars

\* The judge knows handle A and rejects handle B; user.status answers for A.
OneHandleRemote(problemset) ==
    [user_status |-> [h \in Handles |->
                        IF h = "A" THEN Answer(<<sub1700A_first, sub4A_low>>)
                        ELSE Failure("rejected")],
     user_info |-> [h \in Handles |-> IF h = "A" THEN "OK" ELSE "FAILED"],
     problemset |-> problemset]

\* SpecTime: every command of the packaged program under a clock that
\* advances and a configuration the user changes.
InitTime ==
    /\ impl = "packaged"
    /\ remote = OneHandleRemote(Answer(<<cat1700A, cat4A>>))
    /\ copy_ok = TRUE
    /\ Constructed

NextTime ==
    \/ pull \/ add \/ remove \/ whoami \/ list_cmd \/ export \/ plot
    \/ gimme \/ config
    \/ TickSecond \/ TickDay

SpecTime == InitTime /\ [][NextTime]_vars

\* SpecCatalog: the catalog-store of the packaged program against a catalog
\* endpoint that changes its answer, under a clock that advances.
InitCatalog ==
    /\ impl = "packaged"
    /\ \E r \in CatalogResponses : remote = OneHandleRemote(r)
    /\ copy_ok = TRUE
    /\ Constructed

NextCatalog ==
    \/ pull \/ gimme \/ list_cmd
    \/ TickSecond \/ TickDay \/ CatalogChange

SpecCatalog == InitCatalog /\ [][NextCatalog]_vars

\* The judge knows both handles; they have solved 1700A both, and one other
\* problem each.
TwoHandleRemote(problemset) ==
    [user_status |-> [h \in Handles |->
                        IF h = "A" THEN Answer(<<sub1700A_first, sub4A_low>>)
                        ELSE Answer(<<sub1700A_second, sub1700C_floor>>)],
     user_info |-> [h \in Handles |-> "OK"],
     problemset |-> problemset]

\* The answers of problemset.problems that carry a catalog.
CatalogAnswers == {r \in CatalogResponses : r.kind = "OK"}

\* SpecReplace: handles come and go in both programs while the remote
\* catalog changes from one listing to another.
InitReplace ==
    /\ impl \in {"packaged", "legacy"}
    /\ \E r \in CatalogAnswers : remote = TwoHandleRemote(r)
    /\ copy_ok = TRUE
    /\ Constructed

\* The remote catalog changes to another listing.
CatalogRelisted ==
    /\ \E r \in CatalogAnswers :
         /\ remote.problemset # r
         /\ remote' = [remote EXCEPT !.problemset = r]
    /\ last' = WorldMoved
    /\ UNCHANGED <<managers, impl, now, copy_ok, handles, auto_refresh,
                   data_file, all_problems_file, backups>>

NextReplace ==
    \/ pull \/ add \/ remove
    \/ legacy_pull \/ legacy_add \/ legacy_remove
    \/ CatalogRelisted

SpecReplace == InitReplace /\ [][NextReplace]_vars

\* The values the queries draw a predicate from, as <<key, value>>.
RatingChoices == {<<1000, 2000>>, <<1700, 2000>>, <<0, 3500>>}
TagAndChoices == {<<"dp">>, <<"dp", "graphs">>, <<"DP">>}
TagOrChoices == {<<"dp", "math">>, <<"DP">>}
TimeChoices == {<<0, 100>>, <<60, 80>>}
ContestChoices == {17, 170, 1700}
CidRangeChoices == {<<17, 17>>, <<170, 170>>, <<1700, 1700>>}
PidChoices == {<<"A">>, <<"0", "A">>, <<"1">>, <<"B", "1">>, <<"b", "1">>}

\* Filters dicts a caller of DataManager may pass.
FilterChoices ==
    {<<"rating_range", v>> : v \in RatingChoices}
    \cup {<<"tag_and", v>> : v \in TagAndChoices}
    \cup {<<"tag_or", v>> : v \in TagOrChoices}
    \cup {<<"time_range", v>> : v \in TimeChoices}
    \cup {<<"contest_id", <<v>>>> : v \in ContestChoices}
    \cup {<<"problem_id", v>> : v \in PidChoices \cup {ProblemId(1700, <<"A">>)}}
    \cup {<<"cid_range", v>> : v \in CidRangeChoices}

\* Options the user may give to the packaged list and gimme.
ListChoices ==
    {<<"rating", v>> : v \in RatingChoices}
    \cup {<<"tag_and", v>> : v \in TagAndChoices}
    \cup {<<"tag_or", v>> : v \in TagOrChoices}
    \cup {<<"time", v>> : v \in TimeChoices}
    \cup {<<"cid", v>> : v \in CidRangeChoices}
    \cup {<<"pid", v>> : v \in PidChoices}

GimmeChoices == {c \in ListChoices : c[1] \notin {"time", "pid"}}

\* Options the user may give to the legacy list and gimme; --cid is one id.
LegacyListChoices ==
    {c \in ListChoices : c[1] # "cid"}
    \cup {<<"cid", Str(v)>> : v \in ContestChoices}

LegacyGimmeChoices == {c \in GimmeChoices : c[1] # "cid"}

\* base with the keys of none, one or two of the choices set.
With(base, c) == [base EXCEPT ![c[1]] = c[2]]

UpToTwo(base, choices) ==
    {base}
    \cup {With(base, c) : c \in choices}
    \cup UNION {{With(With(base, c), d) :
                    d \in {e \in choices : e[1] # c[1]}} : c \in choices}

FilterSets == UpToTwo(NoFilters, FilterChoices)
ListOptions == UpToTwo(NoOptions, ListChoices)
GimmeOptions == UpToTwo(NoOptions, GimmeChoices)
LegacyListOptions == UpToTwo(NoOptions, LegacyListChoices)
LegacyGimmeOptions == UpToTwo(NoOptions, LegacyGimmeChoices)

\* A caller of DataManager queries the solved problems.
query_solved ==
    /\ impl = "packaged"
    /\ \E filters \in FilterSets :
         Commit("query_solved", filters, call_get_problems(Begin, filters))

\* A caller of DataManager matches the cached catalog against filters.
query_catalog ==
    /\ impl = "packaged"
    /\ \E filters \in FilterSets :
         Commit("query_catalog", filters,
                [Begin EXCEPT !.found =
                    Matching(all_problems_file.problems, filters)])

\* coalesce/cli.py: list with options
list_query ==
    /\ impl = "packaged"
    /\ \E options \in ListOptions :
         Commit("list", options, ListFound(lazy_refresh(Begin), options))

\* coalesce/cli.py: gimme with options
gimme_query ==
    /\ impl = "packaged"
    /\ \E options \in GimmeOptions, solved \in BOOLEAN :
         Commit("gimme", [options |-> options, solved |-> solved],
                GimmeFound(lazy_refresh(Begin), options, solved))

\* coalesce.py: list
legacy_list ==
    /\ impl = "legacy"
    /\ \E options \in LegacyListOptions :
         Commit("list", options, list_problems(Begin, options))

\* coalesce.py: gimme
legacy_gimme ==
    /\ impl = "legacy"
    /\ \E options \in LegacyGimmeOptions, include_solved \in BOOLEAN :
         Commit("gimme", [options |-> options, solved |-> include_solved],
                gimme_problem(Begin, options, include_solved))

\* The judge knows handle A, who has solved the problems the queries are
\* about, and lists them with others nobody has solved.
QueryRemote ==
    [user_status |-> [h \in Handles |->
                        IF h = "A"
                        THEN Answer(<<sub1500C, sub17000B_ok, sub17B1,
                                      sub1700A_first, sub1B_unrated,
                                      sub2A_untimed, sub1800D_beyond,
                                      sub170A>>)
                        ELSE Failure("rejected")],
     user_info |-> [h \in Handles |-> IF h = "A" THEN "OK" ELSE "FAILED"],
     problemset |-> Answer(<<cat1500C, cat17000B, cat17B1, cat170A, cat1700A,
                             cat1B, cat4A, cat1900E>>)]

\* SpecQuery: the filters of both programs over the stores they have written.
InitQuery ==
    /\ impl \in {"packaged", "legacy"}
    /\ remote = QueryRemote
    /\ copy_ok = TRUE
    /\ Constructed

NextQuery ==
    \/ add \/ legacy_add
    \/ query_solved \/ query_catalog \/ list_query \/ gimme_query
    \/ legacy_list \/ legacy_gimme

SpecQuery == InitQuery /\ [][NextQuery]_vars

\* SpecValidate: add and remove of both programs against every way user.info
\* can answer for the two handles.
InitValidate ==
    /\ impl \in {"packaged", "legacy"}
    /\ \E info \in [Handles -> UserInfoResponses] :
          remote = [TwoHandleRemote(Answer(<<cat1700A, cat4A>>))
                       EXCEPT !.user_info = info]
    /\ copy_ok = TRUE
    /\ Constructed

NextValidate ==
    \/ add \/ remove
    \/ legacy_add \/ legacy_remove

SpecValidate == InitValidate /\ [][NextValidate]_vars

\* A caller of DataManager adds or removes a handle and does nothing else.
call_add_handle ==
    /\ impl = "packaged"
    /\ \E handle \in Handles :
         Commit("add_handle", handle, add_handle(Begin, handle))

call_remove_handle ==
    /\ impl = "packaged"
    /\ \E handle \in Handles :
         Commit("remove_handle", handle, remove_handle(Begin, handle))

\* The periods a caller hands to set_auto_refresh: numbers, strings that do
\* and do not denote one, and None.
PeriodArguments ==
    {[number |-> -1], [number |-> 0], [number |-> 1],
     [text |-> <<"0">>], [text |-> <<"0", "1">>], [text |-> <<"-", "1">>],
     [text |-> <<"a", "b", "c">>], [text |-> <<>>], [none |-> TRUE]}

\* A caller of DataManager sets the auto-refresh configuration.
call_set_auto_refresh ==
    /\ impl = "packaged"
    /\ \E enabled \in BOOLEAN, period_days \in PeriodArguments :
         Commit("set_auto_refresh",
                [enabled |-> enabled, period_days |-> period_days],
                set_auto_refresh(Begin, enabled, period_days))

\* SpecFrame: the calls of DataManager that change the handles and the
\* configuration, between the commands that refresh, for every way user.info
\* can answer.
InitFrame ==
    /\ impl = "packaged"
    /\ \E info \in [Handles -> UserInfoResponses] :
          remote = [TwoHandleRemote(Answer(<<cat1700A, cat4A>>))
                       EXCEPT !.user_info = info]
    /\ copy_ok = TRUE
    /\ Constructed

NextFrame ==
    \/ call_add_handle \/ call_remove_handle \/ call_set_auto_refresh
    \/ pull \/ add \/ config

SpecFrame == InitFrame /\ [][NextFrame]_vars

\* coalesce.py: list and gimme without options
legacy_list_cmd ==
    /\ impl = "legacy"
    /\ Commit("list", NoOptions, list_problems(Begin, NoOptions))

legacy_gimme_cmd ==
    /\ impl = "legacy"
    /\ \E include_solved \in BOOLEAN :
         Commit("gimme", [options |-> NoOptions, solved |-> include_solved],
                gimme_problem(Begin, NoOptions, include_solved))

\* The options of a command with one of them malformed.
MalformedOptions(keys) == {[NoOptions EXCEPT ![k] = Malformed] : k \in keys}

\* coalesce/cli.py: list, gimme and plot with a malformed option
list_malformed ==
    /\ impl = "packaged"
    /\ \E options \in MalformedOptions({"rating", "time", "cid"}) :
         Commit("list", options, ListFound(lazy_refresh(Begin), options))

gimme_malformed ==
    /\ impl = "packaged"
    /\ \E options \in MalformedOptions({"rating", "cid"}), solved \in BOOLEAN :
         Commit("gimme", [options |-> options, solved |-> solved],
                GimmeFound(lazy_refresh(Begin), options, solved))

plot_malformed ==
    /\ impl = "packaged"
    /\ \E options \in MalformedOptions({"rating", "time", "cid"}) :
         Commit("plot", options,
                PlotFound(call_get_problems(lazy_refresh(Begin), NoFilters),
                          options))

\* _write_json: open(file_path, 'w') has truncated the file and json.dump has
\* written none or a part of the document when the process is stopped.
StoppedInWrite(st, store) ==
    [Raise(st) EXCEPT ![store] = Damaged, !.result = "stopped"]

\* coalesce/cli.py: pull, stopped by a signal or a power cut while it writes
\* the catalog store or, after that, the solved store.
pull_stopped ==
    /\ impl = "packaged"
    /\ \E c \in {get_all_problems(Begin, TRUE)} :
         \/ /\ HasEv(c.log, "write_catalog")
            /\ Commit("pull", "stopped", StoppedInWrite(c, "all_problems_file"))
         \/ \E s \in {update_problems_data(c)} :
               /\ HasEv(s.log, "write_solved")
               /\ Commit("pull", "stopped", StoppedInWrite(s, "data_file"))

\* coalesce.py: pull, stopped while save_solved_problems_data writes.
legacy_pull_stopped ==
    /\ impl = "legacy"
    /\ \E s \in {legacy_pull_body(Begin)} :
         /\ HasEv(s.log, "write_solved")
         /\ Commit("pull", "stopped", StoppedInWrite(s, "data_file"))

\* A store file is truncated or overwritten with something that is not
\* JSON, by another program or by a write that did not finish.
StoreDamaged ==
    /\ \/ /\ data_file.exists /\ data_file # Damaged
          /\ data_file' = Damaged
          /\ UNCHANGED all_problems_file
       \/ /\ all_problems_file.exists /\ all_problems_file # Damaged
          /\ all_problems_file' = Damaged
          /\ UNCHANGED data_file
    /\ last' = WorldMoved
    /\ UNCHANGED <<managers, impl, now, remote, copy_ok, handles, auto_refresh,
                   backups>>

\* A store file is deleted.
StoreDeleted ==
    /\ \/ /\ data_file.exists
          /\ data_file' = Missing
          /\ UNCHANGED all_problems_file
       \/ /\ all_problems_file.exists
          /\ all_problems_file' = Missing
          /\ UNCHANGED data_file
    /\ last' = WorldMoved
    /\ UNCHANGED <<managers, impl, now, remote, copy_ok, handles, auto_refresh,
                   backups>>

\* SpecDisk: the commands of both programs over store files that may be
\* deleted or damaged between two invocations.
InitDisk ==
    /\ impl \in {"packaged", "legacy"}
    /\ remote = OneHandleRemote(Answer(<<cat1700A, cat4A>>))
    /\ copy_ok = TRUE
    /\ Constructed

NextDisk ==
    \/ pull \/ add \/ list_cmd \/ export \/ plot \/ gimme \/ config
    \/ legacy_pull \/ legacy_add \/ legacy_list_cmd \/ legacy_gimme_cmd
    \/ list_malformed \/ gimme_malformed \/ plot_malformed
    \/ pull_stopped \/ legacy_pull_stopped
    \/ StoreDamaged \/ StoreDeleted

SpecDisk == InitDisk /\ [][NextDisk]_vars

\* A DataManager that reads config.json again before every call.
InMemory_reloaded(p) == Begin

\* What the DataManager of invocation p works on: the handles and the
\* auto-refresh settings are the ones it read in __init__ (self.config), the
\* files are the ones on disk at the moment of the call.
InMemory(p) ==
    [Begin EXCEPT !.handles = managers[p].handles,
                  !.auto_refresh = managers[p].auto_refresh]

\* What last records of a step of an invocation.
Stepped(cmd, arg, s) ==
    [cmd |-> cmd, arg |-> arg, log |-> s.log,
     exit |-> IF s.raised THEN 1 ELSE 0, result |-> s.result,
     returned |-> s.returned, found |-> s.found]

\* DataManager.__init__: an invocation starts and reads config.json.
construct ==
    /\ impl = "packaged"
    /\ \E p \in Invocations :
         /\ managers[p].pc = "none"
         /\ managers' = [managers EXCEPT ![p] =
                           [pc |-> "constructed", handles |-> handles,
                            auto_refresh |-> auto_refresh]]
         /\ last' = Stepped("construct", p, Begin)
    /\ UNCHANGED <<impl, now, remote, copy_ok, handles, auto_refresh,
                   data_file, all_problems_file, backups>>

\* cli add, its call of add_handle: self.config with the handle appended is
\* written to config.json.
step_add_handle ==
    /\ impl = "packaged"
    /\ \E p \in Invocations, handle \in Handles :
         /\ managers[p].pc = "constructed"
         /\ \E s \in {add_handle(InMemory(p), handle)} :
              /\ s.result = "added"
              /\ handles' = s.handles
              /\ auto_refresh' = s.auto_refresh
              /\ managers' = [managers EXCEPT ![p].pc = "added",
                                              ![p].handles = s.handles]
              /\ last' = Stepped("add_handle", handle, s)
    /\ UNCHANGED <<impl, now, remote, copy_ok, data_file, all_problems_file,
                   backups>>

\* update_problems_data up to its backup (lines 221-227), in pull or after
\* add_handle.
step_backup ==
    /\ impl = "packaged"
    /\ \E p \in Invocations :
         /\ managers[p].pc \in {"constructed", "added"}
         /\ managers[p].handles # <<>>
         /\ \E s \in {backup_data(InMemory(p))} :
              /\ ~s.raised
              /\ backups' = s.backups
              /\ managers' = [managers EXCEPT ![p].pc = "backed_up"]
              /\ last' = Stepped("backup_data", p, s)
    /\ UNCHANGED <<impl, now, remote, copy_ok, handles, auto_refresh,
                   data_file, all_problems_file>>

\* update_problems_data from the fetch loop to the write (lines 229-245);
\* the invocation ends.
step_write ==
    /\ impl = "packaged"
    /\ \E p \in Invocations :
         /\ managers[p].pc = "backed_up"
         /\ \E s \in {FetchAndWrite(InMemory(p))} :
              /\ ~s.raised
              /\ data_file' = s.data_file
              /\ managers' = [managers EXCEPT ![p] = NotRunning]
              /\ last' = Stepped("update_problems_data", p, s)
    /\ UNCHANGED <<impl, now, remote, copy_ok, handles, auto_refresh,
                   all_problems_file, backups>>

\* SpecRace: two invocations of the packaged program whose steps interleave.
InitRace ==
    /\ impl = "packaged"
    /\ remote = TwoHandleRemote(Answer(<<cat1700A, cat4A>>))
    /\ copy_ok = TRUE
    /\ Constructed

NextRace ==
    \/ construct \/ step_add_handle \/ step_backup \/ step_write
    \/ TickSecond

SpecRace == InitRace /\ [][NextRace]_vars

\* SpecIngest: the refreshes and the catalog fetches of both programs when
\* the judge's lists hold items that lack an identity field.
IngestResponses ==
    { Answer(<<subNoId, sub1700C_floor>>),
      Answer(<<subNoIndex, sub1700C_floor>>),
      Answer(<<subNoContest, sub1700C_floor>>),
      Answer(<<sub1700A_first>>) }

IngestCatalogs ==
    { Answer(<<catNoName, cat1700A>>),
      Answer(<<catNoIndex, cat1700A>>),
      Answer(<<catGym, cat1700A>>) }

InitIngest ==
    /\ impl \in {"packaged", "legacy"}
    /\ remote \in [user_status : [Handles -> IngestResponses],
                   user_info : {[h \in Handles |-> "OK"]},
                   problemset : IngestCatalogs]
    /\ copy_ok = TRUE
    /\ Constructed

NextIngest ==
    \/ pull \/ add \/ gimme
    \/ legacy_pull \/ legacy_add \/ legacy_gimme_cmd

SpecIngest == InitIngest /\ [][NextIngest]_vars

\* SpecRepeat: the refreshes of both programs over handles whose submission
\* lists hold several accepted submissions of one problem.
RepeatResponses ==
    { Failure("rejected"),
      Answer(<<sub1700A_first, sub1700A_second>>),
      Answer(<<sub1700A_second, sub1700C_floor, sub1700A_first>>),
      Answer(<<sub1700C_floor, sub17000B_wrong>>) }

InitRepeat ==
    /\ impl \in {"packaged", "legacy"}
    /\ remote \in [user_status : [Handles -> RepeatResponses],
                   user_info : {[h \in Handles |-> "OK"]},
                   problemset : {Answer(<<cat1700A, cat4A>>)}]
    /\ copy_ok = TRUE
    /\ Constructed

NextRepeat ==
    \/ pull \/ add \/ remove
    \/ legacy_pull \/ legacy_add \/ legacy_remove

SpecRepeat == InitRepeat /\ [][NextRepeat]_vars

\* SpecClock: the commands of the packaged program that write the two
\* stores, under a clock that advances and a catalog endpoint that changes
\* its answer.
InitClock ==
    /\ impl = "packaged"
    /\ \E r \in CatalogResponses : remote = OneHandleRemote(r)
    /\ copy_ok = TRUE
    /\ Constructed

NextClock ==
    \/ pull \/ add \/ remove \/ list_cmd \/ gimme
    \/ TickSecond \/ TickDay \/ CatalogChange

SpecClock == InitClock /\ [][NextClock]_vars

\* SpecBackups: the packaged program refreshing second after second, until
\* the backup directory has been given more files than backup_data keeps.
\* The behaviours followed are those that fill the directory: the clock
\* moves on once the store has been refreshed in the current second.
TickBackup ==
    /\ now - StartClock < MaxBackupTicks
    /\ data_file.last_refresh = now
    /\ now' = now + 1
    /\ UNCHANGED <<managers, impl, remote, copy_ok, handles, auto_refresh,
                   data_file, all_problems_file, backups, last>>

InitBackups ==
    /\ impl = "packaged"
    /\ remote = OneHandleRemote(Answer(<<cat1700A, cat4A>>))
    /\ copy_ok = TRUE
    /\ Constructed

NextBackups == add \/ pull \/ TickBackup

SpecBackups == InitBackups /\ [][NextBackups]_vars

\* SpecLazy: the commands of the packaged program that begin with
\* lazy_refresh, over a solved-store that may be damaged, a user.status
\* request that may fail in transport, and a clock that advances by days.
StatusFault ==
    /\ \/ /\ remote.user_status["A"].kind = "OK"
          /\ remote' = [remote EXCEPT !.user_status["A"] = Failure("transport")]
       \/ /\ remote.user_status["A"].kind # "OK"
          /\ remote' = [remote EXCEPT !.user_status["A"] =
                                         Answer(<<sub1700A_first, sub4A_low>>)]
    /\ last' = WorldMoved
    /\ UNCHANGED <<managers, impl, now, copy_ok, handles, auto_refresh,
                   data_file, all_problems_file, backups>>

InitLazy ==
    /\ impl = "packaged"
    /\ remote = OneHandleRemote(Answer(<<cat1700A, cat4A>>))
    /\ copy_ok = TRUE
    /\ Constructed

NextLazy ==
    \/ add \/ remove \/ whoami \/ list_cmd
    \/ StoreDamaged \/ StatusFault \/ TickDay

SpecLazy == InitLazy /\ [][NextLazy]_vars

----------------------------------------------------------------------------
(* What the claims speak of.                                               *)

\* The commands that trigger a refresh of the solved-store explicitly.
RefreshCommands == {"pull", "add", "remove"}

\* The commands that begin with lazy_refresh.
LazyCommands == {"add", "remove", "whoami", "list", "export", "plot", "gimme"}

HasEvArg(log, e, arg) == \E i \in 1..Len(log) : log[i].e = e /\ log[i].arg = arg

CountEv(log, e) == Cardinality({i \in 1..Len(log) : log[i].e = e})

MinOf(S) == CHOOSE x \in S : \A y \in S : x <= y

\* The ids of the accepted submissions of problem pid that the remote lists
\* for handle h.
Accepted(h, pid) ==
    LET data == remote.user_status[h] IN
    IF data.kind # "OK" THEN {}
    ELSE {data.result[i].id : i \in
            {k \in 1..Len(data.result) :
                /\ data.result[k].verdict = "OK"
                /\ data.result[k].contestId # Absent
                /\ ProblemId(data.result[k].contestId, data.result[k].index) = pid}}

\* The positions in the handle list of the handles that solved pid.
Solvers(pid) == {k \in 1..Len(handles) : Accepted(handles[k], pid) # {}}

\* The last command ended with a completed refresh of the solved-store.
Refreshed == last.cmd \in RefreshCommands /\ last.result = "updated"

----------------------------------------------------------------------------
(* C1: first-write-wins across handles.  After a refresh over the handle   *)
(* list, the record kept for a problem is a submission of the earliest     *)
(* handle in list order that solved it, never a later handle's.            *)
C1_FirstWriteWins ==
    Refreshed =>
        \A i \in 1..Len(data_file.problems) :
            LET rec == data_file.problems[i] IN
            /\ Solvers(rec.problem_id) # {}
            /\ rec.submission_id \in
                   Accepted(handles[MinOf(Solvers(rec.problem_id))], rec.problem_id)

(* C2: per-handle failure isolation.  A refresh over several handles that  *)
(* has started fetching fetches every handle of the list and ends by       *)
(* overwriting the store, whatever the fetch of one handle does.           *)
C2_FailureIsolation ==
    (last.cmd \in RefreshCommands /\ Len(handles) > 1 /\ HasEv(last.log, "fetch")) =>
        /\ \A h \in Range(handles) : HasEvArg(last.log, "fetch", h)
        /\ last.log[Len(last.log)].e = "write_solved"

(* C3: a failed catalog refresh preserves the cache.  When a command has   *)
(* asked the remote for the catalog and the remote did not answer OK       *)
(* (transport, decode, rejected, malformed), all_problems.json is the file *)
(* it was before, last_refresh included, and what get_all_problems         *)
(* returned is the list cached before.                                     *)
C3_CatalogFailurePreservesCache ==
    [][ ( /\ now' = now
          /\ HasEv(last'.log, "fetch_catalog")
          /\ remote.problemset.kind # "OK" )
        => ( /\ all_problems_file' = all_problems_file
             /\ last'.returned = all_problems_file.problems ) ]_vars

\* A stale, non-empty cache has survived a failed refresh.
C3_Witness ==
    /\ HasEv(last.log, "fetch_catalog")
    /\ remote.problemset.kind = "malformed"
    /\ all_problems_file.problems # <<>>
    /\ all_problems_file.last_refresh < now
    /\ last.returned = all_problems_file.problems

(* C4: a refresh with no handles is a no-op.  A command that runs with an  *)
(* empty handle list leaves problems.json (records and last_refresh) and   *)
(* the backup directory as they were; pull then reports "no handles", and  *)
(* so does the refresh that follows the removal of the last handle.        *)
C4_ZeroHandleNoOp ==
    [][ ( /\ now' = now
          /\ last'.cmd \in RefreshCommands
          /\ handles' = <<>> )
        => ( /\ (handles = <<>> \/ ~HasEv(last'.log, "lazy_solved"))
                   => (data_file' = data_file /\ backups' = backups)
             /\ (last'.cmd = "pull" \/ handles # <<>>)
                   => last'.result = "no_handles" ) ]_vars

\* A pull with no handles has left records of an earlier refresh in place.
C4_Witness ==
    /\ last.cmd = "pull"
    /\ last.result = "no_handles"
    /\ handles = <<>>
    /\ data_file.problems # <<>>
    /\ backups # {}

\* The listed catalog items the ingestion loop can key: those that carry a
\* contestId and an index.
Keyed(items) ==
    {i \in 1..Len(items) :
        items[i].contestId # Absent /\ items[i].index # NoIndex}

(* C5: rating floor.  Every record of problems.json has a rating that is   *)
(* present and at least 800, while a catalog refresh that succeeded has    *)
(* stored every keyed item the remote lists, whatever its rating.          *)
C5_RatingFloor ==
    /\ \A i \in 1..Len(data_file.problems) :
          /\ data_file.problems[i].rating # Absent
          /\ data_file.problems[i].rating >= RatingFloor
    /\ HasEv(last.log, "write_catalog") =>
          \A i \in Keyed(remote.problemset.result) :
             LET item == remote.problemset.result[i] IN
             HasKey(all_problems_file.problems,
                    ProblemId(item.contestId, item.index))

\* The configuration under which refreshes are manual only.
ManualOnly == ~auto_refresh.enabled \/ auto_refresh.period_days = 0

(* C6: manual-only mode.  While auto-refresh is disabled, or enabled with  *)
(* period_days = 0, a command other than pull, add and remove asks the     *)
(* remote for nothing and rewrites neither problems.json nor               *)
(* all_problems.json, however old their last_refresh is.                   *)
C6_ManualOnly ==
    [][ ( /\ now' = now
          /\ ManualOnly
          /\ last'.cmd \notin RefreshCommands \cup {"world"} )
        => ( /\ ~HasEv(last'.log, "fetch")
             /\ ~HasEv(last'.log, "fetch_catalog")
             /\ data_file' = data_file
             /\ all_problems_file' = all_problems_file ) ]_vars

(* C7: staleness rule.  A command that begins with lazy_refresh starts the *)
(* refresh of problems.json if and only if auto-refresh is enabled,        *)
(* period_days > 0 and now - last_refresh > period_days * 86400 for the    *)
(* last_refresh of problems.json, and starts the refresh of                *)
(* all_problems.json if and only if the same holds of the last_refresh of  *)
(* all_problems.json; the two are decided independently.                   *)
C7_StalenessRule ==
    [][ ( /\ now' = now
          /\ last'.cmd \in LazyCommands )
        => ( /\ HasEv(last'.log, "lazy_solved") <=>
                  ( /\ auto_refresh.enabled
                    /\ auto_refresh.period_days > 0
                    /\ now - data_file.last_refresh
                          > auto_refresh.period_days * 86400 )
             /\ HasEv(last'.log, "lazy_catalog") <=>
                  ( /\ auto_refresh.enabled
                    /\ auto_refresh.period_days > 0
                    /\ now - all_problems_file.last_refresh
                          > auto_refresh.period_days * 86400 ) ) ]_vars

\* list has refreshed problems.json, which was one second older than the
\* period, and has left alone all_problems.json, which was not.
C7_Witness ==
    /\ last.cmd = "list"
    /\ HasEv(last.log, "lazy_solved")
    /\ ~HasEv(last.log, "lazy_catalog")
    /\ auto_refresh.period_days = 1
    /\ \E b \in backups :
          /\ b.name = BackupName(now)
          /\ now - b.content.last_refresh = 86400 + 1
    /\ now - all_problems_file.last_refresh = 86400

\* The smaller of two numbers.
Min(a, b) == IF a < b THEN a ELSE b

(* C8: backup retention.  Every refresh that overwrites problems.json adds *)
(* one backup file and the directory never holds more than 10, so that     *)
(* after n refreshes it holds min(n, 10).                                  *)
C8_BackupRetention ==
    [][ ( /\ now' = now
          /\ last'.cmd \in RefreshCommands
          /\ CountEv(last'.log, "write_solved") = 1
          /\ ~HasEv(last'.log, "lazy_solved") )
        => Cardinality(backups')
              = Min(Cardinality(backups) + 1, KeepBackups) ]_vars

(* C9: backup precedes overwrite.  Every overwrite of an existing          *)
(* problems.json is preceded, in the same command, by a backup step, and   *)
(* when the file is overwritten a backup file holds the content it had.    *)
C9_BackupPrecedesOverwrite ==
    \A i \in 1..Len(last.log) :
       (last.log[i].e = "write_solved" /\ last.log[i].arg.existed) =>
          /\ \E j \in 1..(i - 1) : last.log[j].e = "backup"
          /\ last.log[i].arg.held_by # {}

(* C10: refresh idempotence.  A refresh of problems.json that follows a    *)
(* refresh at once, with the same handle list and the same remote answers, *)
(* leaves the same records in the file: the same keys in the same order    *)
(* with the same field values.  Only last_refresh may differ.              *)
C10_RefreshIdempotence ==
    [][ ( /\ now' = now
          /\ Refreshed
          /\ last.exit = 0
          /\ last'.cmd \in RefreshCommands
          /\ last'.result = "updated"
          /\ handles' = handles
          /\ remote' = remote )
        => data_file'.problems = data_file.problems ]_vars

\* A pull over two handles has rewritten, with the same records, the file
\* the refresh before it had written in the same second.
C10_Witness ==
    /\ last.cmd = "pull"
    /\ last.result = "updated"
    /\ Len(handles) = 2
    /\ Len(data_file.problems) > 1
    /\ \E b \in backups :
          /\ b.name = BackupName(now)
          /\ b.content.exists
          /\ b.content.problems = data_file.problems

\* The problem ids of a sequence of records, in order.
Ids(records) == [i \in 1..Len(records) |-> records[i].problem_id]

\* The problems some tracked handle has an accepted submission of.
SolvedByTracked ==
    {pid \in {ProblemId(it.contestId, it.index) :
                it \in UNION {Range(remote.user_status[h].result) : h \in Handles}} :
        Solvers(pid) # {}}

\* Those among them that the remote rates at RatingFloor or more.
RatedByTracked ==
    {ProblemId(it.contestId, it.index) :
        it \in {x \in UNION {Range(remote.user_status[h].result) :
                               h \in Range(handles)} :
                  x.verdict = "OK" /\ x.rating # Absent
                  /\ x.rating >= RatingFloor}}

\* The remote catalog as the ingestion keeps it: the keyed items, in order.
ListedIds ==
    LET items == remote.problemset.result
        keyed == SelectSeq([i \in 1..Len(items) |-> i],
                           LAMBDA i : i \in Keyed(items))
    IN  [k \in 1..Len(keyed) |->
            ProblemId(items[keyed[k]].contestId, items[keyed[k]].index)]

(* C11: whole replacement.  After a completed refresh problems.json holds  *)
(* records of this cycle only: every record is of a problem a tracked      *)
(* handle is listed with now, and every rated problem a tracked handle is  *)
(* listed with has its record, so nothing of the snapshot before survives  *)
(* unless it was fetched again.  After a catalog refresh all_problems.json *)
(* lists exactly the keyed items of the remote catalog, in its order.      *)
C11_WholeReplacement ==
    /\ Refreshed =>
          /\ Range(Ids(data_file.problems)) \subseteq SolvedByTracked
          /\ RatedByTracked \subseteq Range(Ids(data_file.problems))
    /\ HasEv(last.log, "write_catalog") =>
          Ids(all_problems_file.problems) = ListedIds

\* A handle has been removed, another is left, and a problem only the removed
\* handle had solved is in the backup but no longer in the file.
C11_Witness ==
    /\ last.cmd = "remove"
    /\ Refreshed
    /\ handles # <<>>
    /\ \E b \in backups : \E i \in 1..Len(b.content.problems) :
          ~HasKey(data_file.problems, b.content.problems[i].problem_id)

\* The store a query reads, the filters it ran with, and the records with
\* a given id among those it found.
Queries == {"query_solved", "query_catalog", "list"}

Queried ==
    IF last.cmd = "query_catalog" THEN all_problems_file.problems
    ELSE data_file.problems

FiltersOf(l) == IF l.cmd = "list" THEN ListFilters(l.arg) ELSE l.arg

Supplied(filters) == {k \in DOMAIN filters : filters[k] # NoFilters[k]}

Only(filters, k) == [NoFilters EXCEPT ![k] = filters[k]]

RatingAndTag(range, tags) ==
    [NoFilters EXCEPT !.rating_range = range, !.tag_and = tags]

FoundIds == Range(Ids(last.found))

\* C12: a query with several predicates returns exactly the records that
\* each of its predicates, supplied alone, returns; the query with no
\* predicate returns every stored record; the record 1500C, rated 1600 and
\* tagged dp and graphs, is returned for rating 1000-2000 with tag_and dp and
\* is not returned for rating 1700-2000 with tag_and dp.
C12_FilterConjunction ==
    (impl = "packaged" /\ last.cmd \in Queries /\ last.exit = 0) =>
        /\ last.found =
              SelectSeq(Queried,
                 LAMBDA r : \A k \in Supplied(FiltersOf(last)) :
                    InSeq(r, Matching(Queried, Only(FiltersOf(last), k))))
        /\ FiltersOf(last) = NoFilters => last.found = Queried
        /\ ( /\ FiltersOf(last) = RatingAndTag(<<1000, 2000>>, <<"dp">>)
             /\ HasKey(Queried, ProblemId(1500, <<"C">>)) )
              => ProblemId(1500, <<"C">>) \in FoundIds
        /\ FiltersOf(last) = RatingAndTag(<<1700, 2000>>, <<"dp">>)
              => ProblemId(1500, <<"C">>) \notin FoundIds

\* A query with a rating range and a tag has kept 1500C and has left out a
\* stored record.
C12_Witness ==
    /\ impl = "packaged"
    /\ last.cmd = "query_solved"
    /\ last.arg = RatingAndTag(<<1000, 2000>>, <<"dp">>)
    /\ ProblemId(1500, <<"C">>) \in FoundIds
    /\ Len(last.found) < Len(data_file.problems)

\* The options list or gimme ran with, and whether gimme ran with --solved.
OptionsOf(l) == IF l.cmd = "list" THEN l.arg ELSE l.arg.options

WithSolved(l) == l.cmd = "gimme" /\ l.arg.solved

WithoutRating(filters) == [filters EXCEPT !.rating_range = Unset]

\* The records list or gimme has to return when the rating is not to
\* constrain them: those its other filters keep.
OthersKeep(l) ==
    IF impl = "packaged"
    THEN IF l.cmd = "list"
         THEN Matching(data_file.problems, WithoutRating(ListFilters(l.arg)))
         ELSE IF l.arg.solved
         THEN Matching(data_file.problems,
                       WithoutRating(GimmeFilters(l.arg.options)))
         ELSE SelectSeq(l.returned,
                 LAMBDA p : /\ ~HasKey(data_file.problems, p.problem_id)
                            /\ _matches_filters(p,
                                  WithoutRating(GimmeFilters(l.arg.options))))
    ELSE IF l.cmd = "list"
         THEN SelectSeq(data_file.problems,
                 LAMBDA p : /\ LegacyTagAndTest(p.tags, l.arg)
                            /\ LegacyTagOrTest(p.tags, l.arg)
                            /\ LegacyTimeTest(p, l.arg)
                            /\ LegacyCidTest(p, l.arg)
                            /\ LegacyPidTest(p, l.arg))
         ELSE SelectSeq(get_all_problemset_problems,
                 LAMBDA p : /\ \/ l.arg.solved
                               \/ ~HasKey(data_file.problems,
                                          ProblemId(p.contestId, p.index))
                            /\ LegacyTagAndTest(p.tags, l.arg.options)
                            /\ LegacyTagOrTest(p.tags, l.arg.options))

\* C13: a list or gimme that is given no rating option returns every record
\* its other options keep, whatever the record's rating is and whether it
\* has one.
C13_OmittedRatingConstrainsNothing ==
    ( /\ last.cmd \in {"list", "gimme"}
      /\ last.exit = 0
      /\ OptionsOf(last).rating = Unset )
       => last.found = OthersKeep(last)

\* The rating range a query was given, Unset when it was given none.
RangeOf(l) ==
    IF l.cmd \in {"query_solved", "query_catalog"} THEN l.arg.rating_range
    ELSE OptionsOf(l).rating

\* The records the query's other predicates keep.
BesidesRating(l) ==
    IF l.cmd \in {"query_solved", "query_catalog"}
    THEN Matching(Queried, WithoutRating(l.arg))
    ELSE OthersKeep(l)

\* The id of a stored record or of an item of the problem set.
IdOf(r) ==
    IF "problem_id" \in DOMAIN r THEN r.problem_id
    ELSE ProblemId(r.contestId, r.index)

\* The judge lists the problem without a rating.
JudgeUnrated(id) ==
    \E i \in 1..Len(remote.problemset.result) :
       /\ remote.problemset.result[i].contestId # Absent
       /\ remote.problemset.result[i].rating = Absent
       /\ IdOf(remote.problemset.result[i]) = id

Rated(r) == r.rating # Absent /\ ~JudgeUnrated(IdOf(r))

\* C14: a query with a rating range min-max keeps, of the records its other
\* predicates keep, exactly those that have a rating with min <= rating <=
\* max; a problem the judge lists without a rating is kept by no range, 0-3500
\* included.
C14_RatingRange ==
    ( /\ last.cmd \in {"query_solved", "query_catalog", "list", "gimme"}
      /\ last.exit = 0
      /\ RangeOf(last) # Unset )
       => last.found =
             SelectSeq(BesidesRating(last),
                LAMBDA r : /\ Rated(r)
                           /\ RangeOf(last)[1] <= r.rating
                           /\ r.rating <= RangeOf(last)[2])

\* The filters a packaged query ran with: those of the caller, or those list
\* built from its options.
Direct == {"query_solved", "query_catalog"}

\* The time range a query was given, Unset when it was given none.
TimeOf(l) == IF l.cmd \in Direct THEN l.arg.time_range ELSE l.arg.time

\* The records the query's other predicates keep.
BesidesTime(l) ==
    IF l.cmd \in Direct
    THEN Matching(Queried, [l.arg EXCEPT !.time_range = Unset])
    ELSE IF impl = "packaged"
    THEN Matching(Queried, [ListFilters(l.arg) EXCEPT !.time_range = Unset])
    ELSE list_problems(Begin, [l.arg EXCEPT !.time = Unset]).found

Timed(r) == "submission_time" \in DOMAIN r /\ r.submission_time # Absent

\* C15: a query with a time range start-end keeps, of the records its other
\* predicates keep, exactly those that have a submission_time with
\* start <= submission_time <= end; a record without submission_time is
\* never kept.
C15_TimeRange ==
    ( /\ last.cmd \in Direct \cup {"list"}
      /\ last.exit = 0
      /\ TimeOf(last) # Unset )
       => last.found =
             SelectSeq(BesidesTime(last),
                LAMBDA r : /\ Timed(r)
                           /\ TimeOf(last)[1] <= r.submission_time
                           /\ r.submission_time <= TimeOf(last)[2])

\* What the query l would have found had it run with other filters, other
\* options.
DirectFound(l, filters) ==
    IF l.cmd = "query_solved" THEN get_problems(Begin, filters)
    ELSE Matching(all_problems_file.problems, filters)

FoundWith(l, options) ==
    IF impl = "packaged"
    THEN IF l.cmd = "list" THEN ListFound(Begin, options).found
         ELSE GimmeFound(Begin, options, l.arg.solved).found
    ELSE IF l.cmd = "list" THEN list_problems(Begin, options).found
         ELSE gimme_problem(Begin, options, l.arg.solved).found

\* The filters or options of the query l, whichever it ran with.
Asked(l) == IF l.cmd \in Direct THEN l.arg ELSE OptionsOf(l)

\* The records the query's predicates other than the tags keep.
BesidesTags(l) ==
    IF l.cmd \in Direct
    THEN DirectFound(l, [l.arg EXCEPT !.tag_and = <<>>, !.tag_or = <<>>])
    ELSE FoundWith(l, [OptionsOf(l) EXCEPT !.tag_and = <<>>, !.tag_or = <<>>])

\* C16: tags are matched without regard to case, by every query alike: of
\* the records its other predicates keep, a query keeps exactly those that
\* carry every tag of tag_and and, when tag_or is given, one tag of tag_or,
\* tags being equal when their lower-case forms are; a record tagged DP is
\* kept for tag_and dp.
C16_TagsIgnoreCase ==
    ( /\ last.cmd \in Direct \cup {"list", "gimme"}
      /\ last.exit = 0
      /\ Asked(last).tag_and \o Asked(last).tag_or # <<>> )
       => last.found =
             SelectSeq(BesidesTags(last),
                LAMBDA r :
                   /\ LowerSet(Asked(last).tag_and) \subseteq LowerSet(r.tags)
                   /\ \/ Asked(last).tag_or = <<>>
                      \/ LowerSet(Asked(last).tag_or) \cap LowerSet(r.tags) # {})

\* The contest a stored record belongs to; the legacy record holds it in its
\* problem link only.
ContestOf(r) ==
    IF "contest_id" \in DOMAIN r THEN r.contest_id ELSE r.problem_link[2]

\* The query l was given a contest id.
ContestAsked(l) ==
    IF l.cmd \in Direct
    THEN l.arg.contest_id # Unset \/ l.arg.cid_range # Unset
    ELSE l.cmd \in {"list", "gimme"} /\ OptionsOf(l).cid # Unset

\* The record r is of the contest the query l was given: the contest_id of
\* the filters, the one contest of a cid range c-c, the legacy --cid c.
OfContestAsked(r, l) ==
    IF l.cmd \in Direct
    THEN /\ l.arg.contest_id = Unset \/ ContestOf(r) = l.arg.contest_id[1]
         /\ \/ l.arg.cid_range = Unset
            \/ /\ l.arg.cid_range[1] <= ContestOf(r)
               /\ ContestOf(r) <= l.arg.cid_range[2]
    ELSE IF impl = "packaged"
    THEN /\ OptionsOf(l).cid[1] <= ContestOf(r)
         /\ ContestOf(r) <= OptionsOf(l).cid[2]
    ELSE Str(ContestOf(r)) = OptionsOf(l).cid

\* The records the query's predicates other than the contest id keep.
BesidesContest(l) ==
    IF l.cmd \in Direct
    THEN DirectFound(l, [l.arg EXCEPT !.contest_id = Unset,
                                      !.cid_range = Unset])
    ELSE FoundWith(l, [OptionsOf(l) EXCEPT !.cid = Unset])

\* C17: a query with contest id c keeps only records whose contest id is c,
\* and keeps every such record that its other predicates keep (the legacy
\* pid filter is left out of this half: what it keeps depends on whether a
\* contest id is given); 17 and 170 do not keep 1700A and 1700 does not keep
\* 17000B.
C17_ContestIdBoundary ==
    (last.exit = 0 /\ ContestAsked(last)) =>
        /\ \A r \in Range(last.found) : OfContestAsked(r, last)
        /\ (last.cmd \in Direct \/ OptionsOf(last).pid = Unset)
              => last.found = SelectSeq(BesidesContest(last),
                                        LAMBDA r : OfContestAsked(r, last))

\* The legacy list has been asked for contest 17 over a store that holds
\* 17B1, 170A, 1700A and 17000B, and has found 17B1 alone.
C17_Witness ==
    /\ impl = "legacy"
    /\ last.cmd = "list"
    /\ last.arg = [NoOptions EXCEPT !.cid = Str(17)]
    /\ FoundIds = {ProblemId(17, <<"B", "1">>)}
    /\ {ProblemId(170, <<"A">>), ProblemId(1700, <<"A">>),
        ProblemId(17000, <<"B">>)} \subseteq Range(Ids(data_file.problems))

\* The problem index of a stored record; the legacy record holds it in its
\* problem link only.
IndexOf(r) ==
    IF "problem_code" \in DOMAIN r THEN r.problem_code ELSE r.problem_link[3]

\* The pid the query l was given.
PidOf(l) ==
    IF l.cmd \in Direct THEN l.arg.problem_id
    ELSE IF l.cmd = "list" THEN l.arg.pid
    ELSE Unset

\* The records the query's predicates other than the pid keep.
BesidesPid(l) ==
    IF l.cmd \in Direct
    THEN DirectFound(l, [l.arg EXCEPT !.problem_id = Unset])
    ELSE FoundWith(l, [l.arg EXCEPT !.pid = Unset])

\* C18: a query with a problem index pid keeps, of the records its other
\* predicates keep, exactly those whose index is pid (letters compared
\* without regard to case), so 0A does not keep 1700A and 1 does not keep
\* 17B1; with a contest id c among the other predicates that is the one
\* record whose problem_id is c followed by pid.
C18_ProblemIndexMatch ==
    (last.exit = 0 /\ PidOf(last) \in PidChoices) =>
        last.found =
           SelectSeq(BesidesPid(last),
                     LAMBDA r : upper(IndexOf(r)) = upper(PidOf(last)))

\* No handle stands twice in the list.
NoDuplicates(hs) ==
    \A i, j \in 1..Len(hs) : hs[i] = hs[j] => i = j

\* C19: the handle list never holds a handle twice; adding a handle that is
\* tracked and removing one that is not end in failure (the call answers
\* "exists" or "missing", or the command has failed before the call) and
\* leave the list as it was.
C19_HandleSet ==
    [][ /\ NoDuplicates(handles')
        /\ (last'.cmd = "add" /\ InSeq(last'.arg, handles))
              => /\ handles' = handles
                 /\ last'.result = "exists" \/ last'.exit = 1
        /\ (last'.cmd = "remove" /\ ~InSeq(last'.arg, handles))
              => /\ handles' = handles
                 /\ last'.result = "missing" \/ last'.exit = 1 ]_vars

\* Both handles are tracked and adding one of them again has been refused.
C19_Witness ==
    /\ last.cmd = "add"
    /\ last.result = "exists"
    /\ Len(handles) = 2

\* The last command has added the handle it was given.
Entered == InSeq(last'.arg, handles') /\ ~InSeq(last'.arg, handles)

\* C20: add puts a handle on the list only after user.info has answered OK
\* for it; when user.info rejects the handle or the request fails, the list
\* stays as it was and add fetches nothing for the handle.
C20_ValidatedBeforeAccepted ==
    [][ last'.cmd = "add" =>
          /\ Entered => /\ remote.user_info[last'.arg] = "OK"
                        /\ HasEvArg(last'.log, "user_info", last'.arg)
          /\ remote.user_info[last'.arg] # "OK"
                => /\ handles' = handles
                   /\ ~HasEvArg(last'.log, "fetch", last'.arg) ]_vars

\* C21: add_handle and remove_handle change the handle list and nothing
\* else: the solved problems and their last_refresh, the cached catalog, the
\* backups and the auto_refresh settings are as before, and get_problems
\* returns after the call what it returned before it.
C21_HandleMutationFrame ==
    [][ last'.cmd \in {"add_handle", "remove_handle"} =>
          /\ data_file' = data_file
          /\ all_problems_file' = all_problems_file
          /\ backups' = backups
          /\ auto_refresh' = auto_refresh
          /\ get_problems(Begin, NoFilters)' = get_problems(Begin, NoFilters)
      ]_vars

\* The only tracked handle has been removed and its records are on disk.
C21_Witness ==
    /\ last.cmd = "remove_handle"
    /\ last.result = "removed"
    /\ handles = <<>>
    /\ get_problems(Begin, NoFilters) # <<>>

----------------------------------------------------------------------------
(* C22: tolerant store read.                                               *)

\* The command that has just ended queried the solved problems: list, and
\* the packaged gimme --solved.
ReadSolved(l) ==
    \/ l.cmd \in {"list", "export", "plot"}
    \/ l.cmd = "gimme" /\ impl = "packaged" /\ l.arg.solved

\* The command that has just ended queried the cached catalog: the packaged
\* gimme without --solved.
ReadCatalog(l) == l.cmd = "gimme" /\ impl = "packaged" /\ ~l.arg.solved

\* C22: a query that finds the store file it reads missing, empty or
\* unparseable, and that no refresh of this invocation has rewritten, reads
\* it as the empty snapshot: the command ends without an exception and with
\* an empty result.
C22_TolerantStoreRead ==
    [][ (\/ /\ ReadSolved(last')
            /\ _read_json_raises(data_file)
            /\ ~HasEv(last'.log, "write_solved")
         \/ /\ ReadCatalog(last')
            /\ _read_json_raises(all_problems_file)
            /\ ~HasEv(last'.log, "write_catalog"))
        => last'.exit = 0 /\ last'.found = <<>> ]_vars

----------------------------------------------------------------------------
(* C23: atomic store write.                                                *)

\* C23: whatever a command does to a store file, also a command that is
\* stopped while it writes, the file it leaves is the snapshot that was
\* there before or a complete new one, never an empty or a partial file.
C23_AtomicStoreWrite ==
    [][ last'.cmd # "world" =>
          /\ data_file' # data_file => data_file'.readable
          /\ all_problems_file' # all_problems_file
                => all_problems_file'.readable ]_vars

----------------------------------------------------------------------------
(* C24: validation before mutation.                                        *)

\* The options the command that has just ended was given.
Given(l) == IF l.cmd = "gimme" THEN l.arg.options ELSE l.arg

\* list, gimme or plot has just ended and one of its options was malformed.
GivenMalformed(l) ==
    /\ l.cmd \in {"list", "gimme", "plot"}
    /\ \E k \in {"rating", "time", "cid"} : Given(l)[k] = Malformed

\* C24: list, gimme or plot with a malformed rating, cid or time option ends
\* with the error, has fetched nothing from the judge and has written no
\* store file and no backup, whatever the age of the stores.
C24_ValidationBeforeMutation ==
    [][ GivenMalformed(last') =>
          /\ last'.exit # 0
          /\ ~HasEv(last'.log, "fetch") /\ ~HasEv(last'.log, "fetch_catalog")
          /\ data_file' = data_file
          /\ all_problems_file' = all_problems_file
          /\ backups' = backups ]_vars

----------------------------------------------------------------------------
(* C25: empty-state bootstrap.                                             *)

\* The store nothing has been pulled into and no handle is tracked for: the
\* default file of the packaged program, no file yet in the legacy one.
Fresh ==
    /\ handles = <<>>
    /\ data_file = IF impl = "packaged" THEN Snapshot(0, <<>>) ELSE Missing

\* The command that has just ended has reported that there is nothing to show.
ReportedNone(l) ==
    \/ HasEvArg(l.log, "report", "no_problems")
    \/ HasEvArg(l.log, "report", "no_data")

\* list, export, plot or gimme --solved has just ended, of either program.
QueriedSolved(l) ==
    \/ l.cmd \in {"list", "export", "plot"}
    \/ l.cmd = "gimme" /\ l.arg.solved

\* C25: on a fresh store every query command (list, export, plot,
\* gimme --solved) ends without an exception, with an empty result and with
\* the report that no problems were found, and the solved store is as it
\* was: empty, last_refresh = 0.
C25_EmptyStateBootstrap ==
    [][ Fresh /\ QueriedSolved(last') /\ ~GivenMalformed(last') =>
          /\ last'.exit = 0
          /\ last'.found = <<>>
          /\ ReportedNone(last')
          /\ data_file' = data_file ]_vars

----------------------------------------------------------------------------
(* C26: gimme selection.                                                   *)

\* The catalog gimme draws from: the cached one, or what the judge lists.
Catalog ==
    IF impl = "packaged" THEN all_problems_file.problems
    ELSE remote.problemset.result

\* The problem p satisfies the predicates the options supply: it has a
\* rating, and one in the range; it carries the tags, compared in lower
\* case; its contest is in the range.
Satisfies(p, options) ==
    /\ options.rating = Unset
          \/ /\ Rated(p)
             /\ options.rating[1] <= p.rating /\ p.rating <= options.rating[2]
    /\ \A k \in 1..Len(options.tag_and) :
          lower(options.tag_and[k]) \in LowerSet(p.tags)
    /\ options.tag_or = Unset
          \/ \E k \in 1..Len(options.tag_or) :
                lower(options.tag_or[k]) \in LowerSet(p.tags)
    /\ options.cid = Unset
          \/ /\ options.cid[1] <= ContestOf(p)
             /\ ContestOf(p) <= options.cid[2]

\* gimme without --solved has just ended.
PickedUnsolved(l) == l.cmd = "gimme" /\ ~l.arg.solved

\* C26: gimme without --solved does not fail, and every problem it may pick
\* is a problem of the catalog, is not in the solved store by its problem id
\* and satisfies every predicate supplied; with no such problem it picks
\* none and reports that it has found no problems.
C26_GimmeSelection ==
    [][ PickedUnsolved(last') =>
          /\ last'.exit = 0
          /\ \A p \in Range(last'.found) :
                /\ InSeq(p, Catalog')
                /\ ~HasKey(data_file'.problems, IdOf(p))
                /\ Satisfies(p, last'.arg.options)
          /\ last'.found = <<>> => HasEv(last'.log, "report") ]_vars

----------------------------------------------------------------------------
(* C27: exit status.                                                       *)

\* The refresh that has just ended fetched a handle the judge answered for
\* and skipped another it did not answer for.
SomeSkipped ==
    /\ last.cmd \in RefreshCommands
    /\ HasEv(last.log, "fetch")
    /\ \E h \in Range(handles) : remote.user_status[h].kind = "OK"
    /\ \E h \in Range(handles) : remote.user_status[h].kind # "OK"

\* C27: a command that fails as a whole, pull with no handle tracked or add
\* of a handle the judge rejects, ends with a failure status; a refresh in
\* which only some handles were skipped ends with status 0.
C27_ExitStatus ==
    /\ (last.cmd = "pull" /\ last.result = "no_handles") => last.exit # 0
    /\ (last.cmd = "add" /\ last.result = "invalid") => last.exit # 0
    /\ SomeSkipped => last.exit = 0

----------------------------------------------------------------------------
(* C28: auto-refresh configuration.                                        *)

\* What the caller of set_auto_refresh gave as the period: a number or the
\* decimal numeral of one, and which; anything else is not numeric.
Numeric(x) ==
    \/ "number" \in DOMAIN x
    \/ /\ "text" \in DOMAIN x
       /\ \/ IsDigits(x.text)
          \/ x.text # <<>> /\ Head(x.text) = "-" /\ IsDigits(Tail(x.text))

Magnitude(x) ==
    IF "number" \in DOMAIN x THEN x.number
    ELSE IF Head(x.text) = "-" THEN 0 - DigitsValue(Tail(x.text))
    ELSE DigitsValue(x.text)

NonNegative(x) == Numeric(x) /\ Magnitude(x) >= 0

\* C28: set_auto_refresh with a negative or non-numeric period returns its
\* failure and the configuration is as before; with a non-negative period it
\* returns success and get_config then holds the enabled flag and the period
\* given; the handles are the same in both cases.
C28_AutoRefreshConfiguration ==
    [][ last'.cmd = "set_auto_refresh" =>
          /\ last'.exit = 0
          /\ get_config(Begin)'.handles = get_config(Begin).handles
          /\ ~NonNegative(last'.arg.period_days) =>
                /\ last'.result \in {"bad_period", "not_a_number"}
                /\ get_config(Begin)' = get_config(Begin)
          /\ NonNegative(last'.arg.period_days) =>
                /\ last'.result = "configured"
                /\ get_config(Begin)'.auto_refresh =
                      [enabled |-> last'.arg.enabled,
                       period_days |-> Magnitude(last'.arg.period_days)] ]_vars

----------------------------------------------------------------------------
(* C29: concurrent invocations lose updates.                               *)

\* Invocation p has just added its handle: add_handle has returned success.
JustAdded(p) == managers[p].pc = "constructed" /\ managers'[p].pc = "added"

\* Invocation p has just written the snapshot of its refresh.
JustWritten(p) == managers[p].pc = "backed_up" /\ managers'[p].pc = "none"

\* C29: the stores are not safe for concurrent writers.  An invocation that
\* adds a handle writes the list it loaded at construction with its handle
\* appended, whatever another invocation has written to config.json since,
\* and a refresh writes the snapshot of the handles it loaded: the last
\* writer wins, and what was written in between is lost.
C29_LastWriterWins ==
    [][ \A p \in Invocations :
          /\ JustAdded(p) =>
                handles' = Append(managers[p].handles, last'.arg)
          /\ JustWritten(p) =>
                \A i \in 1..Len(data_file'.problems) :
                   \E h \in Range(managers[p].handles) :
                      Accepted(h, data_file'.problems[i].problem_id) # {}
      ]_vars

\* Two invocations have each added a handle with success, the two handles
\* are distinct, and config.json holds the second one only: the first
\* invocation's handle is lost.
C29_Witness ==
    /\ last.cmd = "add_handle"
    /\ \A p \in Invocations : managers[p].pc = "added"
    /\ Len(handles) = 1
    /\ \E p \in Invocations :
          /\ Len(managers[p].handles) = 1
          /\ managers[p].handles # handles

----------------------------------------------------------------------------
(* C30: accepted submissions only.                                         *)

\* The items of the list user.status answers for handle h, the empty list
\* when the request did not succeed.
Items(h) ==
    IF remote.user_status[h].kind = "OK" THEN remote.user_status[h].result
    ELSE <<>>

\* Record rec of the store was made from item: it names the item's problem
\* and carries the item's submission, rating and tags.
MadeFrom(rec, item) ==
    /\ item.contestId # Absent
    /\ rec.problem_id = ProblemId(item.contestId, item.index)
    /\ rec.submission_id = item.id
    /\ rec.tags = item.tags
    /\ rec.rating = item.rating \/ (item.rating = Absent /\ rec.rating \in {0, Absent})

\* C30: after a refresh every record of the solved-store was made from an
\* item with verdict exactly "OK" in the submission list of a tracked
\* handle; a problem for which the tracked handles have only items of other
\* verdicts has no record.
C30_AcceptedOnly ==
    Refreshed =>
        \A i \in 1..Len(data_file.problems) :
            \E h \in Range(handles) :
                \E k \in 1..Len(Items(h)) :
                    /\ Items(h)[k].verdict = "OK"
                    /\ MadeFrom(data_file.problems[i], Items(h)[k])

\* A refresh has written a store with records while a tracked handle's list
\* holds a rejected attempt at a problem no tracked handle has solved: the
\* store has no record for that problem.
C30_Witness ==
    /\ Refreshed
    /\ data_file.problems # <<>>
    /\ \E h \in Range(handles) :
          \E k \in 1..Len(Items(h)) :
              /\ Items(h)[k].verdict # "OK"
              /\ Items(h)[k].rating # Absent
              /\ Items(h)[k].rating >= RatingFloor
              /\ ~HasKey(data_file.problems,
                         ProblemId(Items(h)[k].contestId, Items(h)[k].index))

----------------------------------------------------------------------------
(* C31: malformed items are dropped silently.                              *)

\* An accepted item that has its contest id, problem index and submission id.
WellFormed(item) ==
    /\ item.verdict = "OK"
    /\ item.id # Absent
    /\ item.contestId # Absent
    /\ item.index # NoIndex

\* An item of the problem set that has its contest id, index and name.
Listed(item) ==
    /\ item.contestId # Absent
    /\ item.index # NoIndex
    /\ item.name # NoName

\* The well-formed accepted items of the tracked handles that the store
\* takes: in the packaged program those rated at the floor or above.
Ingestible ==
    {item \in UNION {Range(Items(h)) : h \in Range(handles)} :
        /\ WellFormed(item)
        /\ impl = "packaged" => item.rating # Absent /\ item.rating >= RatingFloor}

\* The items of the answer of problemset.problems.
CatalogItems ==
    IF remote.problemset.kind = "OK" THEN Range(remote.problemset.result) ELSE {}

\* C31: a pull over handles whose lists hold accepted items without contest
\* id, problem index or submission id ends without an error, the store holds
\* a record for every well-formed item of those lists and for nothing else;
\* a catalog fetch stores (the legacy gimme draws from) exactly the items of
\* the problem set that have contest id, index and name.
C31_MalformedItemsDropped ==
    /\ (last.cmd = "pull" /\ handles # <<>>) =>
          /\ last.exit = 0
          /\ last.result = "updated"
          /\ \A item \in Ingestible :
                HasKey(data_file.problems, ProblemId(item.contestId, item.index))
          /\ \A i \in 1..Len(data_file.problems) :
                \E item \in Ingestible : MadeFrom(data_file.problems[i], item)
    /\ (impl = "packaged" /\ HasEv(last.log, "fetch_catalog")) =>
          /\ \A item \in CatalogItems :
                Listed(item) =>
                   HasKey(all_problems_file.problems,
                          ProblemId(item.contestId, item.index))
          /\ \A i \in 1..Len(all_problems_file.problems) :
                \E item \in CatalogItems :
                   /\ Listed(item)
                   /\ all_problems_file.problems[i].problem_id =
                         ProblemId(item.contestId, item.index)
    /\ (impl = "legacy" /\ last.cmd = "gimme") =>
          \A i \in 1..Len(last.found) : Listed(last.found[i])

----------------------------------------------------------------------------
(* C32: handle processing order.                                           *)

\* The handles a command has fetched, in the order it fetched them.
RECURSIVE FetchOrder(_)
FetchOrder(log) ==
    IF log = <<>> THEN <<>>
    ELSE IF Head(log).e = "fetch" THEN <<Head(log).arg>> \o FetchOrder(Tail(log))
    ELSE FetchOrder(Tail(log))

\* s is the beginning of t.
IsPrefix(s, t) == Len(s) <= Len(t) /\ SubSeq(t, 1, Len(s)) = s

\* Every record of the store is a submission of the first handle of the list
\* that has solved its problem.
EarliestWins ==
    \A i \in 1..Len(data_file.problems) :
        /\ Solvers(data_file.problems[i].problem_id) # {}
        /\ data_file.problems[i].submission_id \in
              Accepted(handles[MinOf(Solvers(data_file.problems[i].problem_id))],
                       data_file.problems[i].problem_id)

\* C32: an add that tracks a handle puts it at the end of the list, a remove
\* takes its handle out and leaves the others in their order, a pull fetches
\* the handles in the order of the list, and after a refresh the record of a
\* problem several handles have solved is the one of the handle that comes
\* first in the list: the one added earliest.
C32_HandleOrder ==
    [][ /\ (last'.cmd = "add" /\ handles' # handles) =>
              handles' = Append(handles, last'.arg)
        /\ (last'.cmd = "remove" /\ handles' # handles) =>
              handles' = SelectSeq(handles, LAMBDA h : h # last'.arg)
        /\ last'.cmd = "pull" => IsPrefix(FetchOrder(last'.log), handles)
        /\ Refreshed' => EarliestWins'
      ]_vars

----------------------------------------------------------------------------
(* C33: pacing between fetches.                                            *)

\* The positions of the per-handle fetches in a log.
FetchesAt(log) == {i \in 1..Len(log) : log[i].e = "fetch"}

\* C33: in the refresh of a pull over more than one handle, between every
\* two fetches the program has waited for at least one second, and it has
\* not waited before the first fetch.
C33_PacingBetweenFetches ==
    last.cmd = "pull" =>
        /\ \A i, j \in FetchesAt(last.log) :
              i < j => \E k \in (i + 1)..(j - 1) :
                          last.log[k].e = "sleep" /\ last.log[k].arg >= 1
        /\ \A k \in 1..Len(last.log) :
              last.log[k].e = "sleep" => \E i \in FetchesAt(last.log) : i < k

----------------------------------------------------------------------------
(* C34: a refresh all of whose fetches are rejected still overwrites.      *)

\* The judge rejects the user.status request of every tracked handle.
AllRejected ==
    /\ handles # <<>>
    /\ \A h \in Range(handles) : remote.user_status[h].kind = "rejected"

\* C34: a pull over a non-empty handle list every fetch of which the judge
\* rejects ends with success and has overwritten the store with no records
\* (and, in the packaged program, with the time of the refresh as
\* last_refresh); the file as it was before is the backup this refresh has
\* taken.
C34_TotalFailureOverwrites ==
    [][ (last'.cmd = "pull" /\ AllRejected) =>
          /\ last'.exit = 0
          /\ last'.result = "updated"
          /\ data_file'.exists
          /\ data_file'.problems = <<>>
          /\ impl = "packaged" => data_file'.last_refresh = now
          /\ data_file.exists =>
                [name |-> BackupName(now), content |-> data_file] \in backups'
      ]_vars

----------------------------------------------------------------------------
(* C35: records outlive the last handle.                                   *)

\* lazy_refresh finds the solved-store older than the configured period.
SolvedStale ==
    /\ auto_refresh.enabled
    /\ auto_refresh.period_days > 0
    /\ IsStale(data_file.last_refresh, auto_refresh.period_days)

----------------------------------------------------------------------------
(* C36: first-seen within one handle.                                      *)

\* The positions in the list of handle h of its accepted submissions of pid.
AcceptedAt(h, pid) ==
    {k \in 1..Len(Items(h)) :
        /\ WellFormed(Items(h)[k])
        /\ ProblemId(Items(h)[k].contestId, Items(h)[k].index) = pid}

\* Handle h has several accepted submissions of pid.
Repeated(h, pid) == Cardinality(AcceptedAt(h, pid)) > 1

\* C36: after a refresh the record of a problem is, for the handle it was
\* taken from, the first accepted submission of that problem in the order of
\* the handle's list, never a later one of the same list.
C36_FirstSeenWithinHandle ==
    Refreshed =>
        \A i \in 1..Len(data_file.problems) :
            \E h \in Range(handles) :
                /\ AcceptedAt(h, data_file.problems[i].problem_id) # {}
                /\ data_file.problems[i].submission_id =
                      Items(h)[MinOf(AcceptedAt(h,
                                 data_file.problems[i].problem_id))].id

\* A refresh over one handle whose list holds two accepted submissions of a
\* problem has stored a record of it, and the submission that comes first in
\* the list is not the one with the smallest id or the earliest time.
C36_Witness ==
    /\ Refreshed
    /\ Len(handles) = 1
    /\ remote.user_status[handles[1]] =
          Answer(<<sub1700A_second, sub1700C_floor, sub1700A_first>>)
    /\ \E i \in 1..Len(data_file.problems) :
          /\ Repeated(handles[1], data_file.problems[i].problem_id)
          /\ data_file.problems[i].submission_id = sub1700A_second.id

----------------------------------------------------------------------------
(* C37: last_refresh monotonicity.                                         *)

\* C37: under a clock that does not go back, no step makes the last_refresh
\* of problems.json or of all_problems.json smaller; the last_refresh of
\* problems.json changes only in a command that has overwritten the file
\* over a non-empty handle list, and the one of all_problems.json only in a
\* command that has fetched the catalog while the judge answered OK.
C37_LastRefreshMonotone ==
    [][ /\ data_file'.last_refresh >= data_file.last_refresh
        /\ all_problems_file'.last_refresh >= all_problems_file.last_refresh
        /\ data_file'.last_refresh # data_file.last_refresh =>
              /\ HasEv(last'.log, "write_solved")
              /\ handles # <<>> \/ handles' # <<>>
              /\ data_file'.last_refresh = now
        /\ all_problems_file'.last_refresh # all_problems_file.last_refresh =>
              /\ HasEv(last'.log, "fetch_catalog")
              /\ remote.problemset.kind = "OK"
              /\ all_problems_file'.last_refresh = now
      ]_vars

\* Both stores have been refreshed after the clock had advanced, and a later
\* command whose catalog fetch failed has left the catalog-store with the
\* last_refresh it had.
C37_Witness ==
    /\ data_file.last_refresh > StartClock
    /\ all_problems_file.last_refresh > StartClock
    /\ all_problems_file.last_refresh < now
    /\ HasEv(last.log, "fetch_catalog")
    /\ remote.problemset.kind # "OK"

----------------------------------------------------------------------------
(* C38: backup bound.                                                      *)

\* The names of the files of a backup directory.
Names(files) == {b.name : b \in files}

\* C38: when backup_data has returned the backup directory holds at most 10
\* files, the copy it has just made is one of them, and every file a step
\* has removed from the directory had a name smaller than the name of every
\* file the step has left there.
C38_BackupBound ==
    [][ /\ Cardinality(backups') <= KeepBackups
        /\ (now' = now /\ HasEv(last'.log, "backup")) =>
              BackupName(now) \in Names(backups')
        /\ \A n \in Names(backups) \ Names(backups') :
              \A m \in Names(backups') : n < m
      ]_vars

\* backup_data has pruned: the directory holds 10 files, and the store one
\* of them has copied was written in a second whose own backup is gone.
C38_Witness ==
    /\ HasEv(last.log, "backup")
    /\ Cardinality(backups) = KeepBackups
    /\ \E b \in backups :
          /\ b.content.last_refresh >= StartClock
          /\ b.content.last_refresh \notin Names(backups)
          /\ \A m \in Names(backups) : b.content.last_refresh < m

----------------------------------------------------------------------------
(* C39: lazy-refresh isolation.                                            *)

\* lazy_refresh is active and finds the catalog-store readable and stale.
CatalogDue ==
    /\ auto_refresh.enabled
    /\ auto_refresh.period_days > 0
    /\ ~_read_json_raises(Created(all_problems_file))
    /\ IsStale(Created(all_problems_file).last_refresh, auto_refresh.period_days)

\* The solved half of lazy_refresh fails: the store cannot be read, or it is
\* stale and the fetch of a tracked handle raises.
SolvedFails ==
    /\ auto_refresh.enabled
    /\ auto_refresh.period_days > 0
    /\ \/ _read_json_raises(Created(data_file))
       \/ /\ IsStale(Created(data_file).last_refresh, auto_refresh.period_days)
          /\ \E h \in Range(handles) :
                remote.user_status[h].kind \in {"transport", "decode"}

\* C39: lazy_refresh never ends with an exception; in a command that begins
\* with it the catalog is fetched whenever the catalog-store is due, also
\* when the solved half has failed; and the command goes on with the data
\* that is stored: whoami ends with success and leaves the solved-store as
\* it found it when the solved half fails, add and remove reach the call
\* that changes the handles.
C39_LazyRefreshIsolation ==
    [][ /\ ~lazy_refresh(Begin).raised
        /\ (now' = now /\ last'.cmd \in LazyCommands /\ CatalogDue) =>
              HasEv(last'.log, "fetch_catalog")
        /\ last'.cmd = "whoami" => last'.exit = 0
        /\ (now' = now /\ last'.cmd = "whoami" /\ SolvedFails) =>
              /\ data_file' = Created(data_file)
              /\ handles' = handles
        /\ last'.cmd \in {"add", "remove"} => last'.result # ""
      ]_vars

\* whoami has run while the solved half failed on a fetch and the catalog
\* was due: it has attempted the fetch of the handle, written no solved
\* store, fetched the catalog and ended with success.
C39_Witness ==
    /\ last.cmd = "whoami"
    /\ last.exit = 0
    /\ HasEv(last.log, "lazy_solved")
    /\ HasEv(last.log, "fetch")
    /\ ~HasEv(last.log, "write_solved")
    /\ HasEv(last.log, "fetch_catalog")

====
